---- MODULE Spec2Model ----
(***************************************************************************)
(* Model of the Incus Salt formula: the API client of _modules/incus.py    *)
(* (_request, _sync_request, _wait_for_operation and the accessors that    *)
(* route through them) and the state functions of _states/incus.py.        *)
(*                                                                         *)
(* Python dictionaries are functions from field names to values; a key a   *)
(* dictionary lacks is a field outside its DOMAIN.  A URL path is the      *)
(* sequence of its segments: "/1.0/operations/abc" is                      *)
(* <<"1.0", "operations", "abc">>, the empty string is << >>.              *)
(***************************************************************************)
EXTENDS Integers, Sequences, FiniteSets, TLC

\* ------------------------------------------------------------------------
\* Bounds of the model
\* ------------------------------------------------------------------------
\* largest timeout a wait is started with (the code's default is 300)
MaxTimeout == 2
\* largest poll interval (the code's default is 1)
MaxInterval == 2
\* largest time one request takes on the wall clock
MaxRequestCost == 1

\* ------------------------------------------------------------------------
\* Python values
\* ------------------------------------------------------------------------
\* None in an integer-valued field (error_code, status_code)
NoneCode == -1

\* d.get(k, default)
Get(d, k, default) == IF k \in DOMAIN d THEN d[k] ELSE default

\* ------------------------------------------------------------------------
\* URL handling
\* ------------------------------------------------------------------------
OperationUrl == <<"1.0", "operations", "abc">>
\* a reference to something that is no operation
MalformedUrl == <<"1.0", "instances", "c1">>
\* "/1.0/operations": the prefix without its closing slash
TruncatedUrl == <<"1.0", "operations">>

StartsWithOperations_VersionOnly(u) ==
    /\ Len(u) >= 2
    /\ u[1] = "1.0"

\* operation_url.startswith("/1.0/operations/")
StartsWithOperations(u) ==
    /\ Len(u) >= 3
    /\ u[1] = "1.0"
    /\ u[2] = "operations"

\* operation_url.replace("/1.0/", "/"): every "1.0" segment that another
\* segment follows is dropped, scanning left to right without overlap
RECURSIVE ReplaceVersion(_)
ReplaceVersion(u) ==
    IF Len(u) < 2 THEN u
    ELSE IF Head(u) = "1.0"
         THEN <<u[2]>> \o ReplaceVersion(Tail(Tail(u)))
         ELSE <<Head(u)>> \o ReplaceVersion(Tail(u))

\* urljoin(self.base_url + "/", endpoint.lstrip("/")) with base_url ".../1.0"
JoinBase(endpoint) == <<"1.0">> \o endpoint

\* ------------------------------------------------------------------------
\* The wire: what the transport hands to _request
\* ------------------------------------------------------------------------
NoBody == [none |-> TRUE]

\* a response with an HTTP status and a JSON body, or a connection failure
HttpOutcome(status, body) == [kind |-> "http", status |-> status, body |-> body]
ConnectionFailure == [kind |-> "conn", status |-> 0, body |-> NoBody]

\* Envelopes the control plane answers a mutating request with.
SyncEnvelope ==
    [type |-> "sync", error_code |-> 0, error |-> "", operation |-> << >>,
     metadata |-> [id |-> "c1"]]
AsyncEnvelope(op) ==
    [type |-> "async", error_code |-> 0, error |-> "", operation |-> op,
     metadata |-> [id |-> "abc"]]
\* an async envelope without the top-level operation field
AsyncNoOperation ==
    [type |-> "async", error_code |-> 0, error |-> "",
     metadata |-> [id |-> "abc"]]
\* the envelope {type: "async", metadata: {operation: "/1.0/operations/abc"}}
AsyncMetadataOnly ==
    [type |-> "async", metadata |-> [operation |-> OperationUrl]]

ImmediateBodies ==
    { SyncEnvelope,
      AsyncEnvelope(OperationUrl),
      AsyncEnvelope(MalformedUrl),
      AsyncEnvelope(TruncatedUrl),
      AsyncEnvelope(<< >>),
      AsyncNoOperation,
      AsyncMetadataOnly }

\* Envelopes the control plane answers GET /1.0/operations/<id> with.
OperationEnvelope(status, err) ==
    [type |-> "sync", error_code |-> 0, error |-> "", operation |-> << >>,
     metadata |-> [status_code |-> status, err |-> err]]
\* an operation descriptor without a status_code
OperationNoStatus ==
    [type |-> "sync", error_code |-> 0, error |-> "", operation |-> << >>,
     metadata |-> [err |-> ""]]
\* a failed operation descriptor without an err string
OperationFailedNoErr ==
    [type |-> "sync", error_code |-> 0, error |-> "", operation |-> << >>,
     metadata |-> [status_code |-> 400]]

PollBodies ==
    { OperationEnvelope(s, "") : s \in {100, 101, 103, 200, 401} }
    \cup { OperationEnvelope(400, "boom"), OperationNoStatus,
           OperationFailedNoErr }

ErrorStatuses == {404, 500}

\* a status outside 2xx that the transport neither follows nor raises for:
\* 300 Multiple Choices, answered with a JSON body
UnfollowedStatuses == {300}

Outcomes(bodies) ==
    { HttpOutcome(200, b) : b \in bodies }
    \cup { HttpOutcome(s, b) : s \in UnfollowedStatuses, b \in bodies }
    \cup { HttpOutcome(s, NoBody) : s \in ErrorStatuses }
    \cup { ConnectionFailure }

\* ------------------------------------------------------------------------
\* IncusClient._request
\* ------------------------------------------------------------------------
\* response.raise_for_status() raises for 4xx and 5xx
RaisesForStatus(status) == status >= 400 /\ status < 600

Request(o) ==
    IF o.kind = "conn"
    THEN [error |-> "ConnectionError", error_code |-> NoneCode]
    ELSE IF RaisesForStatus(o.status)
         THEN [error |-> "HTTPError", error_code |-> o.status]
         ELSE o.body

\* ------------------------------------------------------------------------
\* The accessors that route through _sync_request
\* ------------------------------------------------------------------------
Calls == {"create", "update", "delete", "rename", "state"}

Method(c) ==
    CASE c = "create" -> "POST"
      [] c = "update" -> "PUT"
      [] c = "delete" -> "DELETE"
      [] c = "rename" -> "POST"
      [] c = "state"  -> "PUT"

Endpoint(c) ==
    CASE c = "create" -> <<"instances">>
      [] c = "update" -> <<"instances", "c1">>
      [] c = "delete" -> <<"instances", "c1">>
      [] c = "rename" -> <<"instances", "c1">>
      [] c = "state"  -> <<"instances", "c1", "state">>

\* result.get('error_code', "") != 0   (_sync_request)
SyncIsError(r) == Get(r, "error_code", NoneCode) # 0

\* result.get('error_code') != 0       (accessors, _wait_for_operation)
IsError(r) == Get(r, "error_code", NoneCode) # 0

\* if result.get('error_code') != 0:
\*     return {'success': False, 'error': result['error']}
\* return {'success': True, 'message': ...}
AccessorReturn(r) ==
    IF IsError(r)
    THEN IF "error" \in DOMAIN r
         THEN [success |-> FALSE, error |-> r.error]
         ELSE [raised |-> "KeyError"]
    ELSE [success |-> TRUE]

\* ------------------------------------------------------------------------
\* _wait_for_operation: the classification of one poll result
\* ------------------------------------------------------------------------
NonTerminal_Without101 == {100, 103}

\* if status_code in (100, 101, 103)
NonTerminal == {100, 101, 103}

TimeoutResult ==
    [success |-> FALSE, error |-> "Timeout waiting for operation to finish"]
InvalidUrlResult ==
    [success |-> FALSE, error |-> "Invalid operation URL"]

PollStatus(r) == Get(Get(r, "metadata", << >>), "status_code", NoneCode)

PollSleeps_RetryOnError(r) ==
    Get(r, "error_code", NoneCode) # 0
    \/ Get(Get(r, "metadata", << >>), "status_code", NoneCode) \in {100, 101, 103}

\* "sleep": poll again after a sleep; anything else is what the wait returns
PollSleeps(r) == ~IsError(r) /\ PollStatus(r) \in NonTerminal

\* where the loop goes after a poll: time.sleep(interval); continue, or return
PollNextPc_Busy(r) == IF PollSleeps(r) THEN "loop" ELSE "return"

PollNextPc(r) == IF PollSleeps(r) THEN "sleep" ELSE "return"

PollResult_Lenient(r) ==
    LET op == Get(r, "metadata", << >>) IN
    IF IsError(r)
    THEN [success |-> FALSE, error |-> Get(r, "error", "Unknown error"),
          operation |-> r]
    ELSE IF PollStatus(r) = 400
         THEN [success |-> FALSE, operation |-> op,
               error |-> Get(op, "err", "Operation failed")]
         ELSE r

PollResult(r) ==
    LET op == Get(r, "metadata", << >>) IN
    IF IsError(r)
    THEN [success |-> FALSE, error |-> Get(r, "error", "Unknown error"),
          operation |-> r]
    ELSE IF PollStatus(r) = 200
         THEN r
         ELSE IF PollStatus(r) = 400
              THEN [success |-> FALSE, operation |-> op,
                    error |-> Get(op, "err", "Operation failed")]
              ELSE [success |-> FALSE, operation |-> op,
                    error |-> "Unexpected status_code"]

TimedOut_Late(now, start, limit) == now - start > limit + 1

\* time.time() - started > timeout
TimedOut(now, start, limit) == now - start > limit

\* ------------------------------------------------------------------------
\* State
\* ------------------------------------------------------------------------
Unset == [unset |-> TRUE]

VARIABLES
    pc,         \* where the accessor call is
    call,       \* which accessor was called
    clock,      \* time.time()
    started,    \* _wait_for_operation: started
    timeout,    \* _wait_for_operation: timeout
    interval,   \* _wait_for_operation: interval
    opurl,      \* _wait_for_operation: operation_url
    immediate,  \* what the accessor's _request returned
    result,     \* what _sync_request returned to the accessor
    outcome,    \* what the accessor returned to its caller
    reqlog,     \* every request sent to the control plane, in order
    events,     \* the polls and sleeps of the wait, in order
    polled      \* the result of each poll, in order

clientVars ==
    <<pc, call, clock, started, timeout, interval, opurl, immediate, result,
      outcome, reqlog, events, polled>>

\* the control plane and the last state function run (the reconciliation engine)
VARIABLES
    family,      \* the resource family the declared states are about
    desired,     \* the declared specification, as the SLS file gives it
    instances,   \* control plane: instance name -> instance
    cprofiles,   \* control plane: profile name -> profile
    snapshots,   \* control plane: the snapshots of the instance, as listed
    images,      \* control plane: fingerprint -> image
    aliases,     \* control plane: image alias name -> target fingerprint
    resources,   \* control plane: the storage pool and the server settings
    run,         \* the last state function run and what it returned
    inflight     \* the instance_update calls under way and their requests so far

engineVars ==
    <<family, desired, instances, cprofiles, snapshots, images, aliases,
      resources, run, inflight>>

vars == <<clientVars, engineVars>>

\* d with the keys of override set to override's values: d.update(override)
Update(d, override) ==
    [k \in DOMAIN d \cup DOMAIN override |->
        IF k \in DOMAIN override THEN override[k] ELSE d[k]]

EmptyDict == << >>

NoSpec == [config |-> EmptyDict, devices |-> EmptyDict,
           profiles |-> [some |-> FALSE, val |-> << >>],
           description |-> [some |-> FALSE, val |-> ""]]

NoRun == [fn |-> "none", test |-> FALSE, result |-> "True",
          changes |-> EmptyDict, log |-> << >>]

\* the processes that call instance_update on the same instance
Callers == {"A", "B"}

\* no call of instance_update is under way
NoUpdates ==
    [calls |-> [c \in Callers |->
                  [pc |-> "idle", config |-> EmptyDict, current |-> EmptyDict,
                   success |-> FALSE]],
     order |-> << >>]

\* the engine's variables while only the client is exercised
EngineIdle ==
    /\ family = "none"
    /\ desired = NoSpec
    /\ instances = EmptyDict
    /\ cprofiles = EmptyDict
    /\ snapshots = << >>
    /\ images = EmptyDict
    /\ aliases = EmptyDict
    /\ resources = EmptyDict
    /\ run = NoRun
    /\ inflight = NoUpdates

ClientIdle ==
    /\ pc = "idle"
    /\ call = "none"
    /\ clock = 0
    /\ started = 0
    /\ timeout = 0
    /\ interval = 1
    /\ opurl = << >>
    /\ immediate = Unset
    /\ result = Unset
    /\ outcome = Unset
    /\ reqlog = << >>
    /\ events = << >>
    /\ polled = << >>

ClientInit ==
    /\ EngineIdle
    /\ pc = "idle"
    /\ call = "none"
    /\ clock = 0
    /\ started = 0
    /\ timeout \in 0..MaxTimeout
    /\ interval \in 1..MaxInterval
    /\ opurl = << >>
    /\ immediate = Unset
    /\ result = Unset
    /\ outcome = Unset
    /\ reqlog = << >>
    /\ events = << >>
    /\ polled = << >>

\* ------------------------------------------------------------------------
\* Actions of an accessor call
\* ------------------------------------------------------------------------
\* the operation reference _sync_request hands to the wait: result.get("operation")
OperationOf(r) == Get(r, "operation", << >>)

\* _sync_request waits when the result is no error, is async and names an
\* operation
SyncWaits(r) ==
    /\ ~SyncIsError(r)
    /\ Get(r, "type", "") = "async"
    /\ OperationOf(r) # << >>

\* An accessor calls client._sync_request(method, endpoint), which issues
\* one _request and returns its result or enters _wait_for_operation.
SyncRequest(c, o, cost) ==
    /\ pc = "idle"
    /\ call' = c
    /\ reqlog' = Append(reqlog, [method |-> Method(c), path |-> JoinBase(Endpoint(c))])
    /\ immediate' = Request(o)
    /\ IF SyncWaits(Request(o))
       THEN /\ pc' = "wait"
            /\ opurl' = OperationOf(Request(o))
            /\ result' = result
       ELSE /\ pc' = "return"
            /\ opurl' = opurl
            /\ result' = Request(o)
    /\ clock' = clock + cost
    /\ UNCHANGED engineVars
    /\ UNCHANGED <<started, timeout, interval, outcome, events, polled>>

\* _wait_for_operation up to the loop: started = time.time(), the prefix check
WaitEnter ==
    /\ pc = "wait"
    /\ started' = clock
    /\ IF StartsWithOperations(opurl)
       THEN pc' = "loop" /\ result' = result
       ELSE pc' = "return" /\ result' = InvalidUrlResult
    /\ UNCHANGED engineVars
    /\ UNCHANGED <<call, clock, timeout, interval, opurl, immediate, outcome,
                   reqlog, events, polled>>

\* the top of the loop when the timeout has passed
WaitTimeout ==
    /\ pc = "loop"
    /\ TimedOut(clock, started, timeout)
    /\ pc' = "return"
    /\ result' = TimeoutResult
    /\ UNCHANGED engineVars
    /\ UNCHANGED <<call, clock, started, timeout, interval, opurl, immediate,
                   outcome, reqlog, events, polled>>

\* one pass of the loop that polls: the GET and the classification of its result
WaitPoll(o, cost) ==
    /\ pc = "loop"
    /\ ~TimedOut(clock, started, timeout)
    /\ reqlog' = Append(reqlog, [method |-> "GET",
                                 path |-> JoinBase(ReplaceVersion(opurl))])
    /\ events' = Append(events, "poll")
    /\ polled' = Append(polled, Request(o))
    /\ clock' = clock + cost
    /\ pc' = PollNextPc(Request(o))
    /\ result' = IF PollSleeps(Request(o)) THEN result ELSE PollResult(Request(o))
    /\ UNCHANGED engineVars
    /\ UNCHANGED <<call, started, timeout, interval, opurl, immediate, outcome>>

\* time.sleep(interval); continue
WaitSleep ==
    /\ pc = "sleep"
    /\ clock' = clock + interval
    /\ events' = Append(events, "sleep")
    /\ pc' = "loop"
    /\ UNCHANGED engineVars
    /\ UNCHANGED <<call, started, timeout, interval, opurl, immediate, result,
                   outcome, reqlog, polled>>

\* the accessor turns the result of _sync_request into its own return value
Return ==
    /\ pc = "return"
    /\ outcome' = AccessorReturn(result)
    /\ pc' = "done"
    /\ UNCHANGED engineVars
    /\ UNCHANGED <<call, clock, started, timeout, interval, opurl, immediate,
                   result, reqlog, events, polled>>

ClientNext ==
    \/ \E c \in Calls, o \in Outcomes(ImmediateBodies), cost \in 0..MaxRequestCost :
          SyncRequest(c, o, cost)
    \/ WaitEnter
    \/ WaitTimeout
    \/ \E o \in Outcomes(PollBodies), cost \in 0..MaxRequestCost : WaitPoll(o, cost)
    \/ WaitSleep
    \/ Return

ClientSpec == ClientInit /\ [][ClientNext]_vars

\* The scheduling is one blocking thread: a call that can take a step takes it.
ClientFairSpec == ClientSpec /\ WF_vars(ClientNext)

\* ------------------------------------------------------------------------
\* The reconciliation engine: values
\* ------------------------------------------------------------------------
\* A scalar is <<type, text>>: the string "2" is <<"str", "2">>, the integer
\* 2 is <<"int", "2">>.
\* str(value)
Str(v) == <<"str", v[2]>>

\* None, in a "changes" entry or as the result of dict.get
None == [none |-> TRUE]

\* the dictionaries with keys in K and values in V
Dicts(K, V) == UNION { [S -> V] : S \in SUBSET K }

\* bool(d) of a dictionary or list
Truthy(d) == DOMAIN d # {}

Range(f) == { f[x] : x \in DOMAIN f }

\* ------------------------------------------------------------------------
\* The readiness loops: instance_wait_ready and instance_wait_cloudinit
\* ------------------------------------------------------------------------
ReadyCalls == {"instance_wait_ready", "instance_wait_cloudinit"}

\* what _sync_request returns for the exec probe: a failure, the envelope of
\* a command that returned 0 or 1, an envelope without a return code, and one
\* whose metadata is null
ExecResult(code) ==
    [type |-> "sync", error_code |-> 0, error |-> "",
     metadata |-> [metadata |-> [return |-> code]]]
ProbeResults ==
    { [success |-> FALSE, error |-> "Unknown error"],
      ExecResult(0),
      ExecResult(1),
      [type |-> "sync", error_code |-> 0, error |-> "",
       metadata |-> [metadata |-> EmptyDict]],
      [type |-> "sync", error_code |-> 0, error |-> "", metadata |-> None] }

ProbeSucceeds_IgnoresReturn(fn, p) == Get(p, "error_code", NoneCode) = 0

\* the probe ends the loop with success: error_code 0 for
\* instance_wait_ready; for instance_wait_cloudinit also
\* metadata.metadata.return == 0 (-1 when missing; reading a null metadata
\* raises, which the loop catches)
ProbeSucceeds(fn, p) ==
    /\ Get(p, "error_code", NoneCode) = 0
    /\ fn = "instance_wait_cloudinit"
          => /\ p.metadata # None
             /\ Get(Get(p.metadata, "metadata", EmptyDict), "return", NoneCode) = 0

\* while time.time() - started < timeout
ReadyInTime(now, start, limit) == now - start < limit

\* client = _client(); started = time.time()
ReadyStart(fn) ==
    /\ pc = "idle"
    /\ call' = fn
    /\ started' = clock
    /\ pc' = "ready_loop"
    /\ UNCHANGED engineVars
    /\ UNCHANGED <<clock, timeout, interval, opurl, immediate, result, outcome,
                   reqlog, events, polled>>

\* one pass of the loop up to the sleep: the exec probe and what it leads to
ReadyProbe(p, cost) ==
    /\ pc = "ready_loop"
    /\ ReadyInTime(clock, started, timeout)
    /\ polled' = Append(polled, p)
    /\ events' = Append(events, "probe")
    /\ clock' = clock + cost
    /\ IF ProbeSucceeds(call, p)
       THEN /\ pc' = "done"
            /\ outcome' = [success |-> TRUE, elapsed_time |-> clock' - started]
       ELSE /\ pc' = "ready_sleep"
            /\ outcome' = outcome
    /\ UNCHANGED engineVars
    /\ UNCHANGED <<call, started, timeout, interval, opurl, immediate, result, reqlog>>

\* time.sleep(interval)
ReadySleep ==
    /\ pc = "ready_sleep"
    /\ clock' = clock + interval
    /\ events' = Append(events, "sleep")
    /\ pc' = "ready_loop"
    /\ UNCHANGED engineVars
    /\ UNCHANGED <<call, started, timeout, interval, opurl, immediate, result,
                   outcome, reqlog, polled>>

\* the loop condition fails: the timeout failure
ReadyTimeout ==
    /\ pc = "ready_loop"
    /\ ~ReadyInTime(clock, started, timeout)
    /\ pc' = "done"
    /\ outcome' = [success |-> FALSE, error |-> "Timeout", elapsed_time |-> clock - started]
    /\ UNCHANGED engineVars
    /\ UNCHANGED <<call, clock, started, timeout, interval, opurl, immediate,
                   result, reqlog, events, polled>>

ReadyNext ==
    \/ \E fn \in ReadyCalls : ReadyStart(fn)
    \/ \E p \in ProbeResults, cost \in 0..MaxRequestCost : ReadyProbe(p, cost)
    \/ ReadySleep
    \/ ReadyTimeout

ReadySpec == ClientInit /\ [][ReadyNext]_vars

\* one blocking thread: a loop that can take a step takes it
ReadyFairSpec == ReadySpec /\ WF_vars(ReadyNext)

InstanceName == "c1"
ProfileName == "p1"

\* the control plane stores configuration values as strings; limits.cpu takes
\* two values, limits.memory one
StoredConfigs ==
    { c \in Dicts({"limits.cpu", "limits.memory"}, { <<"str", "1">>, <<"str", "2">> }) :
        "limits.memory" \in DOMAIN c => c["limits.memory"] = <<"str", "1">> }

\* what a state file may declare: a string, or an integer YAML did not quote
DeclaredConfigs ==
    { c \in Dicts({"limits.cpu", "limits.memory"}, { <<"str", "1">>, <<"int", "2">> }) :
        "limits.memory" \in DOMAIN c => c["limits.memory"] = <<"str", "1">> }

\* the devices declared: eth0 with at least one property
DeclaredDevices ==
    Dicts({"eth0"}, Dicts({"type", "parent"}, {"a"}) \ {EmptyDict})

\* a stored device always has its type
StoredDevices ==
    { d \in DeclaredDevices : \A n \in DOMAIN d : "type" \in DOMAIN d[n] }

StoredInstances ==
    [config : StoredConfigs,
     devices : StoredDevices,
     profiles : { <<"default">>, <<"default", "web">> },
     status : {"Running", "Stopped"}]

StoredProfiles ==
    [config : StoredConfigs,
     devices : StoredDevices,
     description : {"", "web"}]

\* the arguments of instance_present
InstanceSpecs ==
    [config : DeclaredConfigs,
     devices : DeclaredDevices,
     profiles : {[some |-> FALSE, val |-> << >>]}
                \cup { [some |-> TRUE, val |-> l] :
                         l \in { <<"default">>, <<"web", "default">> } },
     description : {[some |-> FALSE, val |-> ""]}]

\* the arguments of profile_present
ProfileSpecs ==
    [config : DeclaredConfigs,
     devices : DeclaredDevices,
     profiles : {[some |-> FALSE, val |-> << >>]},
     description : {[some |-> FALSE, val |-> ""]}
                   \cup { [some |-> TRUE, val |-> d] : d \in {"", "web"} }]

\* ------------------------------------------------------------------------
\* The control plane behind the accessors
\* ------------------------------------------------------------------------
\* A request reaches the control plane or fails on the way (up), and a
\* mutating request the control plane receives is carried out or refused.
\* The control plane keeps configuration values as strings and refuses a
\* body that carries anything else.
ValidConfig(config) == \A k \in DOMAIN config : config[k][1] = "str"

Failure(msg) == [success |-> FALSE, error |-> msg]

\* ------------------------------------------------------------------------
\* Execution module: instance accessors
\* ------------------------------------------------------------------------
\* instance_get(name)
InstanceGet(insts, name, up) ==
    IF up /\ name \in DOMAIN insts
    THEN [success |-> TRUE, instance |-> insts[name]]
    ELSE Failure(IF up THEN "not found" ELSE "ConnectionError")

\* for dev_name, dev_conf in devices.items(): merge into an existing device,
\* add a new one
MergeDevices(current, devices) ==
    [d \in DOMAIN current \cup DOMAIN devices |->
        IF d \in DOMAIN devices
        THEN IF d \in DOMAIN current
             THEN Update(current[d], devices[d])
             ELSE devices[d]
        ELSE current[d]]

\* the body instance_update PUTs: the fetched instance with the fields merged
InstanceUpdateBody(inst, config, devices, profiles) ==
    [inst EXCEPT
        !.config = IF Truthy(config) THEN Update(inst.config, config) ELSE @,
        !.devices = IF Truthy(devices) THEN MergeDevices(inst.devices, devices) ELSE @,
        !.profiles = IF profiles.some THEN profiles.val ELSE @]

\* instance_update(name, config, devices, profiles): GET, merge, PUT
InstanceUpdate(insts, name, config, devices, profiles, up2, ok) ==
    LET current == InstanceGet(insts, name, up2) IN
    IF ~current.success
    THEN [success |-> FALSE, instances |-> insts, log |-> << >>]
    ELSE LET body == InstanceUpdateBody(current.instance, config, devices, profiles)
             done == ok /\ ValidConfig(body.config)
         IN  [success |-> done,
              instances |-> IF done THEN [insts EXCEPT ![name] = body] ELSE insts,
              log |-> << <<"PUT", "instances", name>> >>]

\* instance_create(name, ...): POST /instances
InstanceCreate(insts, name, spec, ok) ==
    LET done == ok /\ name \notin DOMAIN insts /\ ValidConfig(spec.config)
        made == [config |-> spec.config,
                 devices |-> spec.devices,
                 profiles |-> IF spec.profiles.some /\ Truthy(spec.profiles.val)
                              THEN spec.profiles.val ELSE <<"default">>,
                 status |-> "Stopped"]
    IN  [success |-> done,
         instances |-> IF done THEN Update(insts, [n \in {name} |-> made]) ELSE insts,
         log |-> << <<"POST", "instances", name>> >>]

\* instance_start(name) / instance_stop(name): PUT /instances/<name>/state
InstanceState(insts, name, status, ok) ==
    LET done == ok /\ name \in DOMAIN insts IN
    [success |-> done,
     instances |-> IF done THEN [insts EXCEPT ![name].status = status] ELSE insts,
     log |-> << <<"PUT", "state", status>> >>]

InstanceDelete_GivesUpAfterStop(insts, name, force, up2, okStop, ok) ==
    LET info == InstanceGet(insts, name, up2)
        stops == force /\ info.success /\ info.instance.status = "Running"
        stopped == IF stops THEN InstanceState(insts, name, "Stopped", okStop)
                   ELSE [success |-> TRUE, instances |-> insts, log |-> << >>]
        after == stopped.instances
        done == ok /\ name \in DOMAIN after /\ after[name].status # "Running"
    IN  IF ~stopped.success
        THEN [success |-> FALSE, instances |-> after, log |-> stopped.log]
        ELSE [success |-> done,
              instances |-> IF done THEN [n \in DOMAIN after \ {name} |-> after[n]]
                            ELSE after,
              log |-> stopped.log \o << <<"DELETE", "instances", name>> >>]

\* instance_delete(name, force): with force a running instance is stopped
\* first; the control plane refuses to delete a running instance
InstanceDelete(insts, name, force, up2, okStop, ok) ==
    LET info == InstanceGet(insts, name, up2)
        stops == force /\ info.success /\ info.instance.status = "Running"
        stopped == IF stops THEN InstanceState(insts, name, "Stopped", okStop)
                   ELSE [success |-> TRUE, instances |-> insts, log |-> << >>]
        after == stopped.instances
        done == ok /\ name \in DOMAIN after /\ after[name].status # "Running"
    IN  [success |-> done,
         instances |-> IF done THEN [n \in DOMAIN after \ {name} |-> after[n]]
                       ELSE after,
         log |-> stopped.log \o << <<"DELETE", "instances", name>> >>]

\* ------------------------------------------------------------------------
\* Execution module: profile accessors
\* ------------------------------------------------------------------------
\* profile_get(name)
ProfileGet(profs, name, up) ==
    IF up /\ name \in DOMAIN profs
    THEN [success |-> TRUE, profile |-> profs[name]]
    ELSE Failure(IF up THEN "not found" ELSE "ConnectionError")

\* the body profile_update PUTs
ProfileUpdateBody(prof, config, devices, description) ==
    [prof EXCEPT
        !.config = IF Truthy(config) THEN Update(prof.config, config) ELSE @,
        !.devices = IF Truthy(devices) THEN MergeDevices(prof.devices, devices) ELSE @,
        !.description = IF description.some THEN description.val ELSE @]

\* profile_update(name, config, devices, description): GET, merge, PUT
ProfileUpdate(profs, name, config, devices, description, up2, ok) ==
    LET current == ProfileGet(profs, name, up2) IN
    IF ~current.success
    THEN [success |-> FALSE, profiles |-> profs, log |-> << >>]
    ELSE LET body == ProfileUpdateBody(current.profile, config, devices, description)
             done == ok /\ ValidConfig(body.config)
         IN  [success |-> done,
              profiles |-> IF done THEN [profs EXCEPT ![name] = body] ELSE profs,
              log |-> << <<"PUT", "profiles", name>> >>]

\* profile_create(name, config, devices, description): POST /profiles
ProfileCreate(profs, name, spec, ok) ==
    LET done == ok /\ name \notin DOMAIN profs /\ ValidConfig(spec.config)
        made == [config |-> spec.config,
                 devices |-> spec.devices,
                 description |-> IF spec.description.some
                                 THEN spec.description.val ELSE ""]
    IN  [success |-> done,
         profiles |-> IF done THEN Update(profs, [n \in {name} |-> made]) ELSE profs,
         log |-> << <<"POST", "profiles", name>> >>]

\* profile_delete(name): DELETE /profiles/<name>
ProfileDelete(profs, name, ok) ==
    LET done == ok /\ name \in DOMAIN profs IN
    [success |-> done,
     profiles |-> IF done THEN [n \in DOMAIN profs \ {name} |-> profs[n]] ELSE profs,
     log |-> << <<"DELETE", "profiles", name>> >>]

\* ------------------------------------------------------------------------
\* State module: the differences a present-state reports
\* ------------------------------------------------------------------------
ConfigChanges_NoCoercion(current, config) ==
    LET changed == { k \in DOMAIN config :
                       k \in DOMAIN current => current[k] # config[k] }
    IN  [k \in changed |->
            [old |-> Get(current, k, None), new |-> Str(config[k])]]

\* for key, value in config.items(): new_val = str(value);
\*     if current_config.get(key) != new_val: config_changes[key] = {old, new}
ConfigChanges(current, config) ==
    LET changed == { k \in DOMAIN config :
                       k \in DOMAIN current => current[k] # Str(config[k]) }
    IN  [k \in changed |->
            [old |-> Get(current, k, None), new |-> Str(config[k])]]

\* for dev_name, dev_conf in devices.items():
\*     if current_devices.get(dev_name) != dev_conf: device_changes[dev_name] = ...
DeviceChanges(current, devices) ==
    LET changed == { d \in DOMAIN devices : Get(current, d, None) # devices[d] }
    IN  [d \in changed |->
            [old |-> Get(current, d, None), new |-> devices[d]]]

ProfilesDiffer_Ordered(current, profiles) == current # profiles

\* set(current_profiles) != set(profiles)
ProfilesDiffer(current, profiles) == Range(current) # Range(profiles)

\* the sections of a changes dictionary that are present
Sections(all) == [k \in { x \in DOMAIN all : all[x].present } |-> all[k].val]

\* the changes instance_present computes for an existing instance
InstanceChanges(inst, spec) ==
    Sections(
        [config |->
            [present |-> Truthy(spec.config)
                         /\ Truthy(ConfigChanges(inst.config, spec.config)),
             val |-> ConfigChanges(inst.config, spec.config)],
         profiles |->
            [present |-> spec.profiles.some
                         /\ ProfilesDiffer(inst.profiles, spec.profiles.val),
             val |-> [old |-> inst.profiles, new |-> spec.profiles.val]],
         devices |->
            [present |-> Truthy(spec.devices)
                         /\ Truthy(DeviceChanges(inst.devices, spec.devices)),
             val |-> DeviceChanges(inst.devices, spec.devices)]])

\* the changes profile_present computes for an existing profile
ProfileChanges(prof, spec) ==
    Sections(
        [config |->
            [present |-> Truthy(spec.config)
                         /\ Truthy(ConfigChanges(prof.config, spec.config)),
             val |-> ConfigChanges(prof.config, spec.config)],
         devices |->
            [present |-> Truthy(spec.devices)
                         /\ Truthy(DeviceChanges(prof.devices, spec.devices)),
             val |-> DeviceChanges(prof.devices, spec.devices)],
         description |->
            [present |-> spec.description.some
                         /\ prof.description # spec.description.val,
             val |-> [old |-> prof.description, new |-> spec.description.val]]])

\* ------------------------------------------------------------------------
\* State module: state functions
\* ------------------------------------------------------------------------
\* what a state function returns (result, changes), the control plane it
\* leaves and the mutating requests it issued
Ret(res, changes, cp, log) ==
    [result |-> res, changes |-> changes, cp |-> cp, log |-> log]

\* {"instance": {"old": old, "new": new}}
Change(key, old, new) == [k \in {key} |-> [old |-> old, new |-> new]]

\* instance_present(name, config, devices, profiles)
InstancePresent(insts, name, spec, test, up, up2, ok) ==
    LET info == InstanceGet(insts, name, up) IN
    IF info.success
    THEN LET changes == InstanceChanges(info.instance, spec) IN
         IF Truthy(changes)
         THEN IF test
              THEN Ret("None", changes, insts, << >>)
              ELSE LET upd == InstanceUpdate(insts, name, spec.config, spec.devices,
                                             spec.profiles, up2, ok)
                   IN  IF upd.success
                       THEN Ret("True", changes, upd.instances, upd.log)
                       ELSE Ret("False", EmptyDict, upd.instances, upd.log)
         ELSE Ret("True", EmptyDict, insts, << >>)
    ELSE IF test
         THEN Ret("None", Change("instance", None, [name |-> name, spec |-> spec]),
                  insts, << >>)
         ELSE LET made == InstanceCreate(insts, name, spec, ok) IN
              IF made.success
              THEN Ret("True", Change("instance", None, [name |-> name]),
                       made.instances, made.log)
              ELSE Ret("False", EmptyDict, made.instances, made.log)

\* instance_absent(name, force)
InstanceAbsent(insts, name, force, test, up, up2, okStop, ok) ==
    LET info == InstanceGet(insts, name, up) IN
    IF info.success
    THEN IF test
         THEN Ret("None", Change("instance", [name |-> name], None), insts, << >>)
         ELSE LET del == InstanceDelete(insts, name, force, up2, okStop, ok) IN
              IF del.success
              THEN Ret("True", Change("instance", [name |-> name], None),
                       del.instances, del.log)
              ELSE Ret("False", EmptyDict, del.instances, del.log)
    ELSE Ret("True", EmptyDict, insts, << >>)

InstanceInState_Always(insts, name, target, test, up, ok) ==
    LET info == InstanceGet(insts, name, up) IN
    IF ~info.success
    THEN Ret("False", EmptyDict, insts, << >>)
    ELSE IF test
         THEN Ret("None", Change("state", info.instance.status, target), insts, << >>)
         ELSE LET done == ok /\ name \in DOMAIN insts
                  after == IF done THEN [insts EXCEPT ![name].status = target]
                           ELSE insts
                  sent == << <<"PUT", "state", name>> >>
              IN  IF done
                  THEN Ret("True",
                           IF info.instance.status = target THEN EmptyDict
                           ELSE Change("state", info.instance.status, target),
                           after, sent)
                  ELSE Ret("False", EmptyDict, after, sent)

\* instance_running(name) with target "Running", instance_stopped(name) with
\* target "Stopped"
InstanceInState(insts, name, target, test, up, ok) ==
    LET info == InstanceGet(insts, name, up) IN
    IF ~info.success
    THEN Ret("False", EmptyDict, insts, << >>)
    ELSE IF info.instance.status = target
         THEN Ret("True", EmptyDict, insts, << >>)
         ELSE IF test
              THEN Ret("None", Change("state", info.instance.status, target), insts, << >>)
              ELSE LET st == InstanceState(insts, name, target, ok) IN
                   IF st.success
                   THEN Ret("True", Change("state", info.instance.status, target),
                            st.instances, st.log)
                   ELSE Ret("False", EmptyDict, st.instances, st.log)

\* the volume volume_detached is called for; its pool is "default" and the
\* device is named after it
VolumeName == "vol1"

\* volume_detached(name, pool, instance): the device is to go by an
\* instance_update with devices = {device_name: {}}
VolumeDetached(insts, inst, name, pool, test, up, up2, ok) ==
    LET info == InstanceGet(insts, inst, up) IN
    IF ~info.success
    THEN Ret("False", EmptyDict, insts, << >>)
    ELSE LET current_devices == info.instance.devices IN
         IF name \notin DOMAIN current_devices
         THEN Ret("True", EmptyDict, insts, << >>)
         ELSE LET device == current_devices[name] IN
              IF Get(device, "pool", "") # pool \/ Get(device, "source", "") # name
              THEN Ret("True", EmptyDict, insts, << >>)
              ELSE IF test
                   THEN Ret("None", Change("device", device, None), insts, << >>)
                   ELSE LET upd == InstanceUpdate(insts, inst, EmptyDict,
                                                  [d \in {name} |-> EmptyDict],
                                                  [some |-> FALSE, val |-> << >>],
                                                  up2, ok)
                        IN  IF upd.success
                            THEN Ret("True", Change("device", device, None),
                                     upd.instances, upd.log)
                            ELSE Ret("False", EmptyDict, upd.instances, upd.log)

\* profile_present(name, config, devices, description)
ProfilePresent(profs, name, spec, test, up, up2, ok) ==
    LET info == ProfileGet(profs, name, up) IN
    IF info.success
    THEN LET changes == ProfileChanges(info.profile, spec) IN
         IF Truthy(changes)
         THEN IF test
              THEN Ret("None", changes, profs, << >>)
              ELSE LET upd == ProfileUpdate(profs, name, spec.config, spec.devices,
                                            spec.description, up2, ok)
                   IN  IF upd.success
                       THEN Ret("True", changes, upd.profiles, upd.log)
                       ELSE Ret("False", EmptyDict, upd.profiles, upd.log)
         ELSE Ret("True", EmptyDict, profs, << >>)
    ELSE IF test
         THEN Ret("None", Change("profile", None, [name |-> name, spec |-> spec]),
                  profs, << >>)
         ELSE LET made == ProfileCreate(profs, name, spec, ok) IN
              IF made.success
              THEN Ret("True", Change("profile", None, [name |-> name]),
                       made.profiles, made.log)
              ELSE Ret("False", EmptyDict, made.profiles, made.log)

\* profile_absent(name)
ProfileAbsent(profs, name, test, up, ok) ==
    LET info == ProfileGet(profs, name, up) IN
    IF ~info.success
    THEN Ret("True", EmptyDict, profs, << >>)
    ELSE IF test
         THEN Ret("None", Change("profile", [name |-> name], None), profs, << >>)
         ELSE LET del == ProfileDelete(profs, name, ok) IN
              IF del.success
              THEN Ret("True", Change("profile", [name |-> name], None),
                       del.profiles, del.log)
              ELSE Ret("False", EmptyDict, del.profiles, del.log)

\* ------------------------------------------------------------------------
\* Snapshots: values
\* ------------------------------------------------------------------------
\* the snapshots an instance has at the start
MaxSnapshots == 3
\* the retention counts declared
MaxKeep == 2
\* the control plane's clock stops here
MaxClock == 5

\* A snapshot name and a pattern are the sequences of their characters.
D1 == <<"d", "1">>
D2 == <<"d", "2">>
D3 == <<"d", "3">>
W1 == <<"w", "1">>
SnapshotNames == {D1, D2, D3, W1}
AnyD == <<"d", "*">>
Patterns == {AnyD, <<"?", "1">>}

\* Snapshot lists without a repeated name, in any order. created_at is the
\* rank of the creation timestamp among the timestamps of the list (equal
\* timestamps share a rank): the code only compares them.
SnapshotLists ==
    UNION { { l \in [1..n -> [name : SnapshotNames, created_at : 1..MaxSnapshots,
                              expires_at : {""}]] :
                /\ \A i, j \in 1..n : l[i].name = l[j].name => i = j
                /\ \E k \in 0..n : { l[i].created_at : i \in 1..n } = 1..k }
            : n \in 0..MaxSnapshots }

\* the instance whose snapshots are managed; restored is the snapshot it was
\* last restored to
SnapshotInstance ==
    [config |-> EmptyDict, devices |-> EmptyDict, profiles |-> <<"default">>,
     status |-> "Stopped", restored |-> << >>]

\* fnmatch.fnmatch(name, pattern) for literals, "*" and "?" (POSIX: no case
\* folding)
RECURSIVE FnMatch(_, _)
FnMatch(name, pattern) ==
    IF pattern = << >>
    THEN name = << >>
    ELSE IF Head(pattern) = "*"
         THEN \/ FnMatch(name, Tail(pattern))
              \/ name # << >> /\ FnMatch(Tail(name), pattern)
         ELSE /\ name # << >>
              /\ Head(pattern) \in {"?", Head(name)}
              /\ FnMatch(Tail(name), Tail(pattern))

\* [s.get("name") for s in snapshots]
SnapshotNamesOf(snaps) == [i \in DOMAIN snaps |-> snaps[i].name]

\* any(s.get("name") == name for s in snapshot_list)
SnapshotExists(snaps, name) == \E i \in DOMAIN snaps : snaps[i].name = name

\* [s for s in current_snapshots if fnmatch.fnmatch(s.get("name", ""), pattern)]
Matching(snaps, pattern) ==
    LET Matches(s) == FnMatch(s.name, pattern) IN SelectSeq(snaps, Matches)

InsertByCreated_Unstable(sorted, s) ==
    LET Earlier(x) == x.created_at < s.created_at
        NotEarlier(x) == x.created_at >= s.created_at
    IN  SelectSeq(sorted, Earlier) \o <<s>> \o SelectSeq(sorted, NotEarlier)

\* one step of the stable sort: s, which followed everything in sorted, goes
\* behind the snapshots created no later than it
InsertByCreated(sorted, s) ==
    LET NotLater(x) == x.created_at <= s.created_at
        Later(x) == x.created_at > s.created_at
    IN  SelectSeq(sorted, NotLater) \o <<s>> \o SelectSeq(sorted, Later)

\* matching_snapshots.sort(key=lambda s: s.get("created_at", ""))
RECURSIVE SortByCreated(_)
SortByCreated(snaps) ==
    IF snaps = << >>
    THEN << >>
    ELSE InsertByCreated(SortByCreated(SubSeq(snaps, 1, Len(snaps) - 1)),
                         snaps[Len(snaps)])

ToDelete_OneMore(snaps, pattern, keep) ==
    LET matching == SortByCreated(Matching(snaps, pattern))
        k == IF keep > 0 THEN keep - 1 ELSE 0
    IN  IF Len(matching) > k
        THEN SnapshotNamesOf(SubSeq(matching, 1, Len(matching) - k))
        ELSE << >>

ToDelete_Newest(snaps, pattern, keep) ==
    LET matching == SortByCreated(Matching(snaps, pattern)) IN
    IF Len(matching) > keep
    THEN SnapshotNamesOf(SubSeq(matching, keep + 1, Len(matching)))
    ELSE << >>

\* to_delete = matching_snapshots[:len(matching_snapshots) - keep], by name
ToDelete(snaps, pattern, keep) ==
    LET matching == SortByCreated(Matching(snaps, pattern)) IN
    IF Len(matching) > keep
    THEN SnapshotNamesOf(SubSeq(matching, 1, Len(matching) - keep))
    ELSE << >>

\* ------------------------------------------------------------------------
\* Execution module: snapshot accessors
\* ------------------------------------------------------------------------
\* the creation timestamp the control plane gives a new snapshot
Now(snaps) ==
    LET times == {0} \cup { snaps[i].created_at : i \in DOMAIN snaps }
    IN  1 + CHOOSE t \in times : \A u \in times : u <= t

\* instance_snapshot_list(instance, recursion=1)
SnapshotList(snaps, up) ==
    IF up THEN [success |-> TRUE, snapshots |-> snaps]
    ELSE Failure("ConnectionError")

\* instance_snapshot_create(instance, snapshot_name)
SnapshotCreate(snaps, name, ok) ==
    LET done == ok /\ ~SnapshotExists(snaps, name)
        made == [name |-> name, created_at |-> Now(snaps), expires_at |-> ""]
    IN  [success |-> done,
         snapshots |-> IF done THEN Append(snaps, made) ELSE snaps,
         log |-> << <<"POST", "snapshots", name>> >>]

\* instance_snapshot_delete(instance, snapshot_name)
SnapshotDelete(snaps, name, ok) ==
    LET done == ok /\ SnapshotExists(snaps, name)
        Others(s) == s.name # name
    IN  [success |-> done,
         snapshots |-> IF done THEN SelectSeq(snaps, Others) ELSE snaps,
         log |-> << <<"DELETE", "snapshots", name>> >>]

\* instance_snapshot_update(instance, snapshot_name, expires_at): GET, PUT.
\* upd is "ok", "unreachable" (the GET fails) or "refused" (the PUT fails)
SnapshotUpdate(snaps, name, expires_at, upd) ==
    LET fetched == upd # "unreachable" /\ SnapshotExists(snaps, name)
        done == fetched /\ upd = "ok"
    IN  [success |-> done,
         snapshots |-> IF done
                       THEN [i \in DOMAIN snaps |->
                               IF snaps[i].name = name
                               THEN [snaps[i] EXCEPT !.expires_at = expires_at]
                               ELSE snaps[i]]
                       ELSE snaps,
         log |-> IF fetched THEN << <<"PUT", "snapshots", name>> >> ELSE << >>]

\* instance_snapshot_restore(instance, snapshot_name): PUT {"restore": name}
SnapshotRestore(insts, snaps, inst, name, ok) ==
    LET done == ok /\ inst \in DOMAIN insts /\ SnapshotExists(snaps, name) IN
    [success |-> done,
     instances |-> IF done THEN [insts EXCEPT ![inst].restored = name] ELSE insts,
     log |-> << <<"PUT", "restore", name>> >>]

\* for snap in to_delete: instance_snapshot_delete(instance, snap_name); a
\* delete of a name in fail is refused, and the loop goes on
RECURSIVE DeleteEach(_, _, _)
DeleteEach(snaps, names, fail) ==
    IF names = << >>
    THEN [snapshots |-> snaps, deleted |-> << >>, failed |-> << >>, log |-> << >>]
    ELSE LET del == SnapshotDelete(snaps, Head(names), Head(names) \notin fail)
             rest == DeleteEach(del.snapshots, Tail(names), fail)
         IN  [snapshots |-> rest.snapshots,
              deleted |-> IF del.success THEN <<Head(names)>> \o rest.deleted
                          ELSE rest.deleted,
              failed |-> IF del.success THEN rest.failed
                         ELSE <<Head(names)>> \o rest.failed,
              log |-> del.log \o rest.log]

\* ------------------------------------------------------------------------
\* State module: snapshot state functions
\* ------------------------------------------------------------------------
\* instance_snapshot_present(instance, name)
InstanceSnapshotPresent(insts, snaps, inst, name, test, up, upList, ok) ==
    IF ~InstanceGet(insts, inst, up).success
    THEN Ret("False", EmptyDict, snaps, << >>)
    ELSE LET listed == SnapshotList(snaps, upList) IN
         IF ~listed.success
         THEN Ret("False", EmptyDict, snaps, << >>)
         ELSE IF SnapshotExists(listed.snapshots, name)
              THEN Ret("True", EmptyDict, snaps, << >>)
              ELSE IF test
                   THEN Ret("None", Change("snapshot", None, name), snaps, << >>)
                   ELSE LET made == SnapshotCreate(snaps, name, ok) IN
                        IF made.success
                        THEN Ret("True", Change("snapshot", None, name),
                                 made.snapshots, made.log)
                        ELSE Ret("False", EmptyDict, made.snapshots, made.log)

InstanceSnapshotAbsent_NoDryRun(insts, snaps, inst, name, test, up, upList, ok) ==
    IF ~InstanceGet(insts, inst, up).success \/ ~SnapshotList(snaps, upList).success
    THEN Ret("False", EmptyDict, snaps, << >>)
    ELSE IF ~SnapshotExists(snaps, name)
         THEN Ret("True", EmptyDict, snaps, << >>)
         ELSE LET del == SnapshotDelete(snaps, name, ok) IN
              IF del.success
              THEN Ret(IF test THEN "None" ELSE "True",
                       Change("snapshot", name, None), del.snapshots, del.log)
              ELSE Ret("False", EmptyDict, del.snapshots, del.log)

\* instance_snapshot_absent(instance, name)
InstanceSnapshotAbsent(insts, snaps, inst, name, test, up, upList, ok) ==
    IF ~InstanceGet(insts, inst, up).success
    THEN Ret("False", EmptyDict, snaps, << >>)
    ELSE LET listed == SnapshotList(snaps, upList) IN
         IF ~listed.success
         THEN Ret("False", EmptyDict, snaps, << >>)
         ELSE IF ~SnapshotExists(listed.snapshots, name)
              THEN Ret("True", EmptyDict, snaps, << >>)
              ELSE IF test
                   THEN Ret("None", Change("snapshot", name, None), snaps, << >>)
                   ELSE LET del == SnapshotDelete(snaps, name, ok) IN
                        IF del.success
                        THEN Ret("True", Change("snapshot", name, None),
                                 del.snapshots, del.log)
                        ELSE Ret("False", EmptyDict, del.snapshots, del.log)

\* instance_snapshot_restored(instance, name); the control plane it leaves is
\* the instances
InstanceSnapshotRestored(insts, snaps, inst, name, test, up, upList, ok) ==
    IF ~InstanceGet(insts, inst, up).success
    THEN Ret("False", EmptyDict, insts, << >>)
    ELSE LET listed == SnapshotList(snaps, upList) IN
         IF ~listed.success
         THEN Ret("False", EmptyDict, insts, << >>)
         ELSE IF ~SnapshotExists(listed.snapshots, name)
              THEN Ret("False", EmptyDict, insts, << >>)
              ELSE IF test
                   THEN Ret("None", Change("restored", "current state", name),
                            insts, << >>)
                   ELSE LET res == SnapshotRestore(insts, snaps, inst, name, ok) IN
                        IF res.success
                        THEN Ret("True", Change("restored", "current state", name),
                                 res.instances, res.log)
                        ELSE Ret("False", EmptyDict, res.instances, res.log)

InstanceSnapshotsRotated_DryReportsAll(insts, snaps, inst, pattern, keep, test, up, upList, fail) ==
    IF ~InstanceGet(insts, inst, up).success \/ ~SnapshotList(snaps, upList).success
    THEN Ret("False", EmptyDict, snaps, << >>)
    ELSE LET to_delete == ToDelete(snaps, pattern, keep)
             d == DeleteEach(snaps, to_delete, fail)
         IN  IF to_delete = << >>
             THEN Ret("True", EmptyDict, snaps, << >>)
             ELSE IF test
                  THEN Ret("None",
                           Change("deleted",
                                  SnapshotNamesOf(SortByCreated(Matching(snaps, pattern))),
                                  None),
                           snaps, << >>)
                  ELSE Ret(IF d.failed # << >> THEN "False" ELSE "True",
                           IF d.deleted # << >>
                           THEN Change("deleted", d.deleted, None)
                           ELSE EmptyDict,
                           d.snapshots, d.log)

InstanceSnapshotsRotated_StopAtFailure(insts, snaps, inst, pattern, keep, test, up, upList, fail) ==
    IF ~InstanceGet(insts, inst, up).success \/ ~SnapshotList(snaps, upList).success
    THEN Ret("False", EmptyDict, snaps, << >>)
    ELSE LET to_delete == ToDelete(snaps, pattern, keep)
             failing == { i \in DOMAIN to_delete : to_delete[i] \in fail }
             tried == IF failing = {} THEN to_delete
                      ELSE SubSeq(to_delete, 1,
                                  CHOOSE i \in failing : \A j \in failing : i <= j)
             d == DeleteEach(snaps, tried, fail)
         IN  IF to_delete = << >>
             THEN Ret("True", EmptyDict, snaps, << >>)
             ELSE IF test
                  THEN Ret("None", Change("deleted", to_delete, None), snaps, << >>)
                  ELSE Ret(IF d.failed # << >> THEN "False" ELSE "True",
                           IF d.deleted # << >>
                           THEN Change("deleted", d.deleted, None)
                           ELSE EmptyDict,
                           d.snapshots, d.log)

\* instance_snapshots_rotated(instance, pattern, keep)
InstanceSnapshotsRotated(insts, snaps, inst, pattern, keep, test, up, upList, fail) ==
    IF ~InstanceGet(insts, inst, up).success
    THEN Ret("False", EmptyDict, snaps, << >>)
    ELSE LET listed == SnapshotList(snaps, upList) IN
         IF ~listed.success
         THEN Ret("False", EmptyDict, snaps, << >>)
         ELSE LET to_delete == ToDelete(listed.snapshots, pattern, keep) IN
              IF to_delete = << >>
              THEN Ret("True", EmptyDict, snaps, << >>)
              ELSE IF test
                   THEN Ret("None", Change("deleted", to_delete, None), snaps, << >>)
                   ELSE LET d == DeleteEach(snaps, to_delete, fail) IN
                        Ret(IF d.failed # << >> THEN "False" ELSE "True",
                            IF d.deleted # << >>
                            THEN Change("deleted", d.deleted, None)
                            ELSE EmptyDict,
                            d.snapshots, d.log)

\* one entry of snapshots_config: name (<< >> when missing or empty), pattern
\* (<< >> when missing or empty), keep (NoneCode when missing), expires
\* (whether expires_at is given)
ManagedEntries ==
    [name : {D1, D3, << >>}, pattern : {<< >>, AnyD},
     keep : {NoneCode, 0, 1}, expires : BOOLEAN]

\* the body of the loop over snapshots_config.items(); listed is the list
\* fetched before the loop, acc what the loop did so far: the control plane
\* as it left it, changes["created"], changes["rotated"] and the requests
ManageEntry(acc, listed, e, test, fail, upd) ==
    LET needs == ~SnapshotExists(listed, e.name)
        made == IF needs /\ ~test
                THEN SnapshotCreate(acc.snapshots, e.name, e.name \notin fail)
                ELSE [success |-> TRUE, snapshots |-> acc.snapshots, log |-> << >>]
        dated == IF needs /\ ~test /\ made.success /\ e.expires
                 THEN SnapshotUpdate(made.snapshots, e.name, "expiry", upd)
                 ELSE [success |-> TRUE, snapshots |-> made.snapshots, log |-> << >>]
        rotates == e.pattern # << >> /\ e.keep # NoneCode
        to_delete == IF rotates THEN ToDelete(listed, e.pattern, e.keep) ELSE << >>
        d == IF test
             THEN [snapshots |-> dated.snapshots, deleted |-> to_delete,
                   failed |-> << >>, log |-> << >>]
             ELSE DeleteEach(dated.snapshots, to_delete, fail)
    IN  IF e.name = << >>
        THEN [acc EXCEPT !.aborted = TRUE]
        ELSE IF ~made.success
             THEN [acc EXCEPT !.aborted = TRUE, !.snapshots = made.snapshots,
                              !.log = @ \o made.log]
             ELSE [aborted |-> FALSE, snapshots |-> d.snapshots,
                   created |-> acc.created \o (IF needs THEN <<e.name>> ELSE << >>),
                   rotated |-> acc.rotated \o d.deleted,
                   log |-> acc.log \o made.log \o dated.log \o d.log]

\* for snap_id, snap_config in snapshots_config.items(): ... (an entry
\* without a name returns from the state function)
RECURSIVE ManageEach(_, _, _, _, _, _)
ManageEach(acc, listed, config, test, fail, upd) ==
    IF config = << >> \/ acc.aborted
    THEN acc
    ELSE ManageEach(ManageEntry(acc, listed, Head(config), test, fail, upd),
                    listed, Tail(config), test, fail, upd)

\* instance_snapshots_managed(instance, snapshots_config)
InstanceSnapshotsManaged(insts, snaps, inst, config, test, up, upList, fail, upd) ==
    IF ~InstanceGet(insts, inst, up).success
    THEN Ret("False", EmptyDict, snaps, << >>)
    ELSE LET listed == SnapshotList(snaps, upList) IN
         IF ~listed.success
         THEN Ret("False", EmptyDict, snaps, << >>)
         ELSE LET m == ManageEach([aborted |-> FALSE, snapshots |-> snaps,
                                    created |-> << >>, rotated |-> << >>,
                                    log |-> << >>],
                                   listed.snapshots, config, test, fail, upd)
                  changes ==
                      Sections(
                          [created |-> [present |-> m.created # << >>,
                                        val |-> [old |-> None, new |-> m.created]],
                           rotated |-> [present |-> m.rotated # << >>,
                                        val |-> [old |-> m.rotated, new |-> None]]])
              IN  IF m.aborted
                  THEN Ret("False", EmptyDict, m.snapshots, m.log)
                  ELSE IF Truthy(changes)
                       THEN Ret(IF test THEN "None" ELSE "True", changes,
                                m.snapshots, m.log)
                       ELSE Ret("True", EmptyDict, m.snapshots, m.log)

\* ------------------------------------------------------------------------
\* Images: values
\* ------------------------------------------------------------------------
\* the state name of image_present, always the primary alias
ImageName == "img"
Fingerprints == {"f1", "f2"}
\* the fingerprint of the image an import brings
ImportedFingerprint == "f9"
\* the alias names, as sorted(...) orders them
AliasOrder == <<"extra", "img", "old">>

\* an image keeps its public flag (auto_update is reconciled the same way;
\* properties, expires_at and compression_algorithm are not declared)
\* no image, or f1 and a private f2
StoredImages ==
    { m \in Dicts(Fingerprints, [public : BOOLEAN]) :
        /\ DOMAIN m \in {{}, Fingerprints}
        /\ "f2" \in DOMAIN m => ~m["f2"].public }

\* the alias maps whose targets are images of imgs; the state name is no
\* alias of f2
StoredAliases(imgs) ==
    { a \in Dicts(Range(AliasOrder), DOMAIN imgs) :
        ImageName \in DOMAIN a => a[ImageName] = "f1" }

\* The arguments of image_present: fingerprint ("" when not given), source
\* (none, {"server": ..., "alias": "old"}, or a dictionary without "server"),
\* public and aliases (<< >> when not given).
ImageSpecs ==
    [fingerprint : {"", "f1"},
     source : {[kind |-> "none"], [kind |-> "remote", alias |-> "old"],
               [kind |-> "invalid"]},
     public : {[some |-> FALSE, val |-> FALSE], [some |-> TRUE, val |-> TRUE]},
     aliases : {<< >>, <<"extra">>}]

\* What goes wrong in one run: the reads that fail (image_list,
\* image_alias_get and image_alias_list in the state function, the GET of an
\* image, the alias list of image_update, the list after an import), whether
\* the control plane refuses the POST/PUT/DELETE of an image, and the aliases
\* whose POST or DELETE it refuses.
ImageFaults ==
    { [down |-> {}, refused |-> FALSE, fail |-> S] : S \in SUBSET Range(AliasOrder) }
    \cup { [down |-> {r}, refused |-> FALSE, fail |-> {}] :
             r \in {"list", "alias", "alias_list", "get", "update_alias_list",
                    "refresh"} }
    \cup { [down |-> {}, refused |-> TRUE, fail |-> {}] }

\* sorted(names) of a set of alias names
Sorted(names) ==
    LET In(a) == a \in names IN SelectSeq(AliasOrder, In)

\* for a in aliases: if a not in desired_aliases: desired_aliases.append(a)
RECURSIVE AppendNew(_, _)
AppendNew(acc, list) ==
    IF list = << >>
    THEN acc
    ELSE AppendNew(IF Head(list) \in Range(acc) THEN acc ELSE Append(acc, Head(list)),
                   Tail(list))

\* ------------------------------------------------------------------------
\* Execution module: image accessors
\* ------------------------------------------------------------------------
\* image_list(recursion=1): the fingerprints listed
ImageList(imgs, up) ==
    IF up THEN [success |-> TRUE, images |-> imgs] ELSE Failure("ConnectionError")

\* image_get(fingerprint)
ImageGet(imgs, fp, up) ==
    IF up /\ fp \in DOMAIN imgs
    THEN [success |-> TRUE, image |-> imgs[fp]]
    ELSE Failure(IF up THEN "not found" ELSE "ConnectionError")

\* image_alias_get(name)
ImageAliasGet(als, name, up) ==
    IF up /\ name \in DOMAIN als
    THEN [success |-> TRUE, alias |-> [name |-> name, target |-> als[name]]]
    ELSE Failure(IF up THEN "not found" ELSE "ConnectionError")

\* image_alias_list(recursion=1)
ImageAliasList(als, up) ==
    IF up THEN [success |-> TRUE, aliases |-> als] ELSE Failure("ConnectionError")

\* the names of the aliases that target fp
AliasesOf(als, fp) == { a \in DOMAIN als : als[a] = fp }

\* POST /images/aliases for each name in turn; with stop the first refusal
\* ends the loop (image_update), without it the loop goes on (the imports)
RECURSIVE AddAliases(_, _, _, _, _)
AddAliases(als, names, fp, fail, stop) ==
    IF names = << >>
    THEN [success |-> TRUE, aliases |-> als, log |-> << >>]
    ELSE LET a == Head(names)
             done == a \notin fail /\ a \notin DOMAIN als
             after == IF done THEN Update(als, [n \in {a} |-> fp]) ELSE als
             entry == << <<"POST", "aliases", a>> >>
         IN  IF ~done /\ stop
             THEN [success |-> FALSE, aliases |-> als, log |-> entry]
             ELSE LET rest == AddAliases(after, Tail(names), fp, fail, stop) IN
                  [success |-> rest.success, aliases |-> rest.aliases,
                   log |-> entry \o rest.log]

\* DELETE /images/aliases/<name> for each name in turn; a refusal is logged
\* and the loop goes on
RECURSIVE RemoveAliases(_, _, _)
RemoveAliases(als, names, fail) ==
    IF names = << >>
    THEN [aliases |-> als, log |-> << >>]
    ELSE LET a == Head(names)
             done == a \notin fail /\ a \in DOMAIN als
             after == IF done THEN [n \in DOMAIN als \ {a} |-> als[n]] ELSE als
             rest == RemoveAliases(after, Tail(names), fail)
         IN  [aliases |-> rest.aliases,
              log |-> << <<"DELETE", "aliases", a>> >> \o rest.log]

\* image_create_from_remote / image_create_from_file: POST /images, then one
\* POST /images/aliases per alias
ImageImport(imgs, als, public, names, fault) ==
    LET fp == ImportedFingerprint
        done == ~fault.refused /\ fp \notin DOMAIN imgs
        added == AddAliases(als, names, fp, fault.fail, FALSE)
    IN  IF done
        THEN [success |-> TRUE, fingerprint |-> fp,
              images |-> Update(imgs, [f \in {fp} |-> [public |-> public]]),
              aliases |-> added.aliases,
              log |-> << <<"POST", "images", fp>> >> \o added.log]
        ELSE [success |-> FALSE, fingerprint |-> "",
              images |-> imgs, aliases |-> als,
              log |-> << <<"POST", "images", fp>> >>]

\* image_update(fingerprint, update_body): GET, PUT the other fields, then
\* reconcile the aliases; body.public and body.aliases are [some, val]
ImageUpdate(imgs, als, fp, body, fault) ==
    LET current == ImageGet(imgs, fp, "get" \notin fault.down)
        puts == body.public.some
        put_ok == ~fault.refused
        imgs2 == IF puts /\ put_ok
                 THEN [imgs EXCEPT ![fp].public = body.public.val] ELSE imgs
        put_log == IF puts THEN << <<"PUT", "images", fp>> >> ELSE << >>
        listed == ImageAliasList(als, "update_alias_list" \notin fault.down)
        current_aliases == Sorted(AliasesOf(als, fp))
        InDesired(a) == a \in Range(body.aliases.val)
        NotDesired(a) == a \notin Range(body.aliases.val)
        NotCurrent(a) == a \notin AliasesOf(als, fp)
        removed == RemoveAliases(als, SelectSeq(current_aliases, NotDesired),
                                 fault.fail)
        added == AddAliases(removed.aliases, SelectSeq(body.aliases.val, NotCurrent),
                            fp, fault.fail, TRUE)
    IN  IF ~current.success
        THEN [success |-> FALSE, images |-> imgs, aliases |-> als, log |-> << >>]
        ELSE IF puts /\ ~put_ok
             THEN [success |-> FALSE, images |-> imgs, aliases |-> als,
                   log |-> put_log]
             ELSE IF ~body.aliases.some
                  THEN [success |-> TRUE, images |-> imgs2, aliases |-> als,
                        log |-> put_log]
                  ELSE IF ~listed.success
                       THEN [success |-> FALSE, images |-> imgs2, aliases |-> als,
                             log |-> put_log]
                       ELSE [success |-> added.success, images |-> imgs2,
                             aliases |-> added.aliases,
                             log |-> put_log \o removed.log \o added.log]

\* image_delete(fingerprint): the control plane drops the image's aliases too
ImageDelete(imgs, als, fp, fault) ==
    LET done == ~fault.refused /\ fp \in DOMAIN imgs
        kept == { a \in DOMAIN als : als[a] # fp }
    IN  [success |-> done,
         images |-> IF done THEN [f \in DOMAIN imgs \ {fp} |-> imgs[f]] ELSE imgs,
         aliases |-> IF done THEN [a \in kept |-> als[a]] ELSE als,
         log |-> << <<"DELETE", "images", fp>> >>]

\* ------------------------------------------------------------------------
\* State module: image state functions
\* ------------------------------------------------------------------------
\* _find_image_by_alias(alias_name): the target, "" for None
FindImageByAlias(als, name, up) ==
    LET info == ImageAliasGet(als, name, up) IN
    IF info.success THEN info.alias.target ELSE ""

\* the first alias of names that leads to a listed image, "" when none does
RECURSIVE FirstByAlias(_, _, _, _)
FirstByAlias(imgs, als, names, up) ==
    IF names = << >>
    THEN ""
    ELSE LET fp == FindImageByAlias(als, Head(names), up) IN
         IF fp # "" /\ fp \in DOMAIN imgs
         THEN fp
         ELSE FirstByAlias(imgs, als, Tail(names), up)

\* the search of image_present: by fingerprint, by the name, by the additional
\* aliases, by source.alias
ImageMatch(imgs, als, name, spec, up) ==
    IF spec.fingerprint # "" /\ spec.fingerprint \in DOMAIN imgs
    THEN spec.fingerprint
    ELSE FirstByAlias(imgs, als,
                      <<name>> \o spec.aliases
                      \o (IF spec.source.kind = "remote"
                          THEN <<spec.source.alias>> ELSE << >>),
                      up)

\* the diff image_present computes for the image it found
ImageDiff(imgs, als, fp, spec, desired_aliases, up) ==
    LET listed == ImageAliasList(als, up)
        current_aliases == IF listed.success THEN AliasesOf(listed.aliases, fp)
                           ELSE {}
    IN  Sections(
            [public |->
                [present |-> spec.public.some /\ imgs[fp].public # spec.public.val,
                 val |-> [old |-> imgs[fp].public, new |-> spec.public.val]],
             aliases |->
                [present |-> Sorted(current_aliases) # Sorted(Range(desired_aliases)),
                 val |-> [old |-> Sorted(current_aliases),
                          new |-> Sorted(Range(desired_aliases))]]])

\* update_body = {k: v["new"] for k, v in diff.items()}
UpdateBody(diff) ==
    [public |-> IF "public" \in DOMAIN diff
                THEN [some |-> TRUE, val |-> diff.public.new]
                ELSE [some |-> FALSE, val |-> FALSE],
     aliases |-> IF "aliases" \in DOMAIN diff
                 THEN [some |-> TRUE, val |-> diff.aliases.new]
                 ELSE [some |-> FALSE, val |-> << >>]]

\* the control plane an image state function leaves
ImageCp(imgs, als) == [images |-> imgs, aliases |-> als]

\* image_present(name, fingerprint, source, public, aliases)
ImagePresent(imgs, als, name, spec, test, fault) ==
    LET desired_aliases == AppendNew(<<name>>, spec.aliases)
        listing == ImageList(imgs, "list" \notin fault.down)
        image_match == ImageMatch(imgs, als, name, spec, "alias" \notin fault.down)
        same == ImageCp(imgs, als)
    IN  IF ~listing.success
        THEN Ret("False", EmptyDict, same, << >>)
        ELSE IF image_match = ""
        THEN IF spec.source.kind = "none"
             THEN Ret("False", EmptyDict, same, << >>)
             ELSE IF test
             THEN Ret("None",
                      [image |-> [old |-> None, new |-> spec.source],
                       aliases |-> [old |-> None, new |-> desired_aliases]],
                      same, << >>)
             ELSE IF spec.source.kind = "invalid"
             THEN Ret("False", EmptyDict, same, << >>)
             ELSE LET imp == ImageImport(imgs, als,
                                         spec.public.some /\ spec.public.val,
                                         desired_aliases, fault)
                      after == ImageCp(imp.images, imp.aliases)
                  IN  IF ~imp.success
                      THEN Ret("False", EmptyDict, after, imp.log)
                      ELSE IF "refresh" \in fault.down
                      THEN Ret("False", EmptyDict, after, imp.log)
                      ELSE Ret("True",
                               [imported |-> [old |-> None, new |-> imp.fingerprint],
                                aliases |-> [old |-> None, new |-> desired_aliases]],
                               after, imp.log)
        ELSE LET diff == ImageDiff(imgs, als, image_match, spec, desired_aliases,
                                   "alias_list" \notin fault.down)
             IN  IF ~Truthy(diff)
                 THEN Ret("True", EmptyDict, same, << >>)
                 ELSE IF test
                 THEN Ret("None", diff, same, << >>)
                 ELSE LET upd == ImageUpdate(imgs, als, image_match,
                                             UpdateBody(diff), fault)
                          after == ImageCp(upd.images, upd.aliases)
                      IN  IF ~upd.success
                          THEN Ret("False", EmptyDict, after, upd.log)
                          ELSE Ret("True", diff, after, upd.log)

\* image_absent(fingerprint, alias), "" for an argument not given
ImageAbsent(imgs, als, fingerprint, alias, test, fault) ==
    LET found == IF alias # ""
                 THEN FindImageByAlias(als, alias, "alias" \notin fault.down)
                 ELSE ""
        fp == IF found # "" THEN found ELSE fingerprint
        same == ImageCp(imgs, als)
    IN  IF fp = ""
        THEN Ret("True", EmptyDict, same, << >>)
        ELSE IF ~ImageGet(imgs, fp, "get" \notin fault.down).success
        THEN Ret("True", EmptyDict, same, << >>)
        ELSE IF test
        THEN Ret("None", [old |-> fp, new |-> None], same, << >>)
        ELSE LET del == ImageDelete(imgs, als, fp, fault)
                 after == ImageCp(del.images, del.aliases)
             IN  IF del.success
                 THEN Ret("True", [old |-> fp, new |-> None], after, del.log)
                 ELSE Ret("False", EmptyDict, after, del.log)

\* ------------------------------------------------------------------------
\* Execution module: storage pool and server settings accessors
\* ------------------------------------------------------------------------
\* The control plane answers a GET with the envelope {type, error_code: 0,
\* error: "", metadata} ("full"), with the envelope {type, metadata}
\* ("bare"), or _request returns {error, error_code} ("error").
GetAnswers == {"full", "bare", "error"}

\* the configuration the storage pool and the server hold
HeldConfigs == Dicts({"a", "b"}, { <<"str", "1">>, <<"str", "2">> })

\* the config argument of an update accessor or of storage_pool_config:
\* strings, or an integer YAML did not quote
SuppliedConfigs ==
    Dicts({"b", "c"}, { <<"str", "3">>, <<"str", "4">>, <<"int", "2">> })

\* a config argument that is a non-empty string instead of a dictionary
NotADict == [str |-> "b=3"]

\* isinstance(config, dict)
IsDict(config) == config # NotADict

StoragePoolUpdate_Replace(pool, config, description, got, ok) ==
    IF got # "bare"
    THEN [success |-> FALSE, pool |-> pool, log |-> << >>]
    ELSE LET body == [config |-> IF Truthy(config) THEN config ELSE pool.config,
                      description |-> IF description.some THEN description.val
                                      ELSE pool.description]
         IN  [success |-> ok, pool |-> IF ok THEN body ELSE pool,
              log |-> << <<"PUT", "storage-pools", body>> >>]

\* storage_pool_update(name, config, description): GET, give up when the
\* answer has an "error" key, merge, PUT
StoragePoolUpdate(pool, config, description, got, ok) ==
    IF got # "bare"
    THEN [success |-> FALSE, pool |-> pool, log |-> << >>]
    ELSE LET body == [pool EXCEPT
                         !.config = IF Truthy(config) THEN Update(@, config) ELSE @,
                         !.description = IF description.some THEN description.val
                                         ELSE @]
         IN  [success |-> ok, pool |-> IF ok THEN body ELSE pool,
              log |-> << <<"PUT", "storage-pools", body>> >>]

SettingsUpdate_LateValidation(settings, config, got, ok) ==
    IF got # "full" \/ ~Truthy(config) \/ ~IsDict(config)
    THEN [success |-> FALSE, settings |-> settings, reads |-> 1, log |-> << >>]
    ELSE LET body == [settings EXCEPT !.config = Update(@, config)] IN
         [success |-> ok, settings |-> IF ok THEN body ELSE settings,
          reads |-> 1, log |-> << <<"PUT", "settings", body>> >>]

\* settings_update(config): refuse an empty config and one that is no
\* dictionary, GET, give up unless error_code is 0, merge, PUT; reads counts
\* the GET requests sent
SettingsUpdate(settings, config, got, ok) ==
    IF ~Truthy(config) \/ ~IsDict(config)
    THEN [success |-> FALSE, settings |-> settings, reads |-> 0, log |-> << >>]
    ELSE IF got # "full"
    THEN [success |-> FALSE, settings |-> settings, reads |-> 1, log |-> << >>]
    ELSE LET body == [settings EXCEPT !.config = Update(@, config)] IN
         [success |-> ok, settings |-> IF ok THEN body ELSE settings,
          reads |-> 1, log |-> << <<"PUT", "settings", body>> >>]

\* storage_pool_get(name): success when error_code is 0; the envelope
\* {type, metadata} makes it read result['error'], which raises KeyError
StoragePoolGet(pool, got) ==
    CASE got = "full" -> [success |-> TRUE, raised |-> FALSE, pool |-> pool]
      [] got = "bare" -> [success |-> FALSE, raised |-> TRUE]
      [] got = "error" -> [success |-> FALSE, raised |-> FALSE]

\* storage_pool_config(name, config, description); volume_config is the same
\* code over volume_get and volume_update
StoragePoolConfig(pool, config, description, test, got, got2, ok) ==
    LET pool_info == StoragePoolGet(pool, got) IN
    IF pool_info.raised
    THEN Ret("Raised", EmptyDict, pool, << >>)
    ELSE IF ~pool_info.success
    THEN Ret("False", EmptyDict, pool, << >>)
    ELSE LET current_config == pool_info.pool.config
             changed == { k \in DOMAIN config :
                            k \in DOMAIN current_config
                               => current_config[k] # config[k] }
             config_changes == [k \in changed |->
                                  [old |-> Get(current_config, k, None),
                                   new |-> config[k]]]
             description_changed ==
                description.some /\ pool_info.pool.description # description.val
             changes ==
                Sections([config |-> [present |-> Truthy(config_changes),
                                      val |-> config_changes],
                          description |->
                             [present |-> description_changed,
                              val |-> [old |-> pool_info.pool.description,
                                       new |-> description.val]]])
         IN  IF ~Truthy(changes)
             THEN Ret("True", EmptyDict, pool, << >>)
             ELSE IF test
             THEN Ret("None", changes, pool, << >>)
             ELSE LET upd == StoragePoolUpdate(pool, config, description, got2, ok) IN
                  IF upd.success
                  THEN Ret("True", changes, upd.pool, upd.log)
                  ELSE Ret("False", EmptyDict, upd.pool, upd.log)

\* settings_replace(config): the same checks, then PUT the fetched settings
\* with config in place of the held one
SettingsReplace(settings, config, got, ok) ==
    IF ~Truthy(config) \/ ~IsDict(config)
    THEN [success |-> FALSE, settings |-> settings, reads |-> 0, log |-> << >>]
    ELSE IF got # "full"
    THEN [success |-> FALSE, settings |-> settings, reads |-> 1, log |-> << >>]
    ELSE LET body == [settings EXCEPT !.config = config] IN
         [success |-> ok, settings |-> IF ok THEN body ELSE settings,
          reads |-> 1, log |-> << <<"PUT", "settings", body>> >>]

\* settings_get(): success when error_code is 0, read with .get
SettingsGet(settings, got) ==
    IF got = "full" THEN [success |-> TRUE, settings |-> settings]
    ELSE [success |-> FALSE, settings |-> [config |-> EmptyDict]]

\* settings_managed(name, config): read the settings, coerce the desired
\* keys and values to strings, report the keys to set and the keys to remove,
\* and hand the coerced config to settings_replace
SettingsManaged(settings, config, test, got, got2, ok) ==
    LET settings_info == SettingsGet(settings, got) IN
    IF ~settings_info.success
    THEN Ret("False", EmptyDict, settings, << >>)
    ELSE LET current_config == settings_info.settings.config
             desired_config == [k \in DOMAIN config |-> Str(config[k])]
             differing == { k \in DOMAIN desired_config :
                              k \in DOMAIN current_config
                                 => current_config[k] # desired_config[k] }
             removed == DOMAIN current_config \ DOMAIN desired_config
             all_changes ==
                [k \in differing \cup removed |->
                   [old |-> Get(current_config, k, None),
                    new |-> Get(desired_config, k, None)]]
         IN  IF ~Truthy(all_changes)
             THEN Ret("True", EmptyDict, settings, << >>)
             ELSE IF test
             THEN Ret("None", [config |-> all_changes], settings, << >>)
             ELSE LET replace_result ==
                         SettingsReplace(settings, desired_config, got2, ok)
                  IN  IF replace_result.success
                      THEN Ret("True", [config |-> all_changes],
                               replace_result.settings, replace_result.log)
                      ELSE Ret("False", EmptyDict, replace_result.settings,
                               replace_result.log)

\* network_get(name): success when error_code is 0; the envelope
\* {type, metadata} makes it read result['error'], which raises KeyError
NetworkGet(network, got) ==
    CASE got = "full" -> [success |-> TRUE, raised |-> FALSE, network |-> network]
      [] got = "bare" -> [success |-> FALSE, raised |-> TRUE]
      [] got = "error" -> [success |-> FALSE, raised |-> FALSE]

\* network_update(name, config): GET, give up when the answer has an "error"
\* key, merge config into the fetched one, PUT
NetworkUpdate(network, config, got, ok) ==
    IF got # "bare"
    THEN [success |-> FALSE, network |-> network, log |-> << >>]
    ELSE LET body == [network EXCEPT !.config = Update(@, config)] IN
         [success |-> ok, network |-> IF ok THEN body ELSE network,
          log |-> << <<"PUT", "networks", body>> >>]

\* network_present(name, network_type, config, description) with the network
\* on the control plane (description is "" when not given, and compared
\* unless None was passed): a failed network_get leads to network_create, which
\* the control plane refuses for a network that exists
NetworkPresent(network, config, description, test, got, got2, ok) ==
    LET network_info == NetworkGet(network, got) IN
    IF network_info.raised
    THEN Ret("Raised", EmptyDict, network, << >>)
    ELSE IF ~network_info.success
    THEN IF test
         THEN Ret("None", [network |-> [old |-> None, new |-> "net"]], network, << >>)
         ELSE Ret("False", EmptyDict, network, << <<"POST", "networks", "net">> >>)
    ELSE LET current_config == network_info.network.config
             changed == { k \in DOMAIN config :
                            k \in DOMAIN current_config
                               => current_config[k] # Str(config[k]) }
             config_changes == [k \in changed |->
                                  [old |-> Get(current_config, k, None),
                                   new |-> Str(config[k])]]
             description_changed ==
                description.some /\ network_info.network.description # description.val
             changes ==
                Sections([config |-> [present |-> Truthy(config_changes),
                                      val |-> config_changes],
                          description |->
                             [present |-> description_changed,
                              val |-> [old |-> network_info.network.description,
                                       new |-> description.val]]])
         IN  IF ~Truthy(changes)
             THEN Ret("True", EmptyDict, network, << >>)
             ELSE IF test
             THEN Ret("None", changes, network, << >>)
             ELSE IF "config" \in DOMAIN changes
             THEN LET upd == NetworkUpdate(network, config, got2, ok) IN
                  IF upd.success
                  THEN Ret("True", changes, upd.network, upd.log)
                  ELSE Ret("False", EmptyDict, upd.network, upd.log)
             ELSE Ret("True", changes, network, << >>)

\* The arguments of image_create_from_remote that it validates ("" for an
\* argument not given): server, alias, fingerprint, protocol, image_type
RemoteArgs ==
    [server : {"", "images"}, alias : {"", "old"}, fingerprint : {"", "f9"},
     protocol : {"simplestreams", "ftp"}, image_type : {"", "container", "disk"}]

\* image_create_from_remote(server, alias, protocol, image_type, fingerprint,
\* public, aliases): the validation, then the import
ImageCreateFromRemote(imgs, als, args, public, names, fault) ==
    IF \/ args.server = ""
       \/ args.alias = "" /\ args.fingerprint = ""
       \/ args.alias # "" /\ args.fingerprint # ""
       \/ args.protocol \notin {"simplestreams", "incus", "lxd", "direct"}
       \/ /\ args.image_type # ""
          /\ args.image_type \notin {"container", "virtual-machine", "instance", "image"}
    THEN [success |-> FALSE, fingerprint |-> "", images |-> imgs, aliases |-> als,
          log |-> << >>]
    ELSE ImageImport(imgs, als, public, names, fault)

\* ------------------------------------------------------------------------
\* Connection configuration: DEFAULT_CFG, deep_merge, IncusClient._load_config
\* ------------------------------------------------------------------------
\* Python dictionaries are objects: the heap maps an object's identity to its
\* items, and an item is a scalar (its text), a reference to a dictionary of
\* the heap, or a dictionary literal of the pillar.
Scalar(text) == [kind |-> "val", v |-> text]
Ref(id) == [kind |-> "ref", id |-> id]
Literal(d) == [kind |-> "dict", d |-> d]

INCUS_SOCKET_PATH == "/var/lib/incus/unix.socket"

\* the module after import: DEFAULT_CFG and the dictionary under its
\* "connection" key
ModuleHeap ==
    [DEFAULT_CFG |-> [connection |-> Ref("connection")],
     connection |-> [type |-> Scalar("unix"), socket |-> Scalar(INCUS_SOCKET_PATH),
                     url |-> Scalar("None"), cert |-> Scalar("None"),
                     key |-> Scalar("None"), verify |-> Scalar("True")]]

\* what config.get("incus", {}) returns from the pillar
PillarConfigs ==
    { EmptyDict,
      [connection |-> Literal(EmptyDict)],
      [connection |-> Literal([type |-> Scalar("https"),
                               url |-> Scalar("https://incus:8443")])],
      [connection |-> Literal([verify |-> Scalar("False")])],
      [project |-> Scalar("web")] }

\* dict.copy(): a new dictionary with the same items, references included
ShallowCopy(heap, id, new) == Update(heap, [n \in {new} |-> heap[id]])

\* deep_merge(base, override) over the keys of override still to visit: a
\* key whose value is a dictionary on both sides is merged into the
\* dictionary that base refers to, any other key is assigned in base
RECURSIVE DeepMergeKeys(_, _, _, _)
DeepMergeKeys(heap, id, override, keys) ==
    IF keys = {}
    THEN heap
    ELSE LET k == CHOOSE x \in keys : TRUE
             nested == /\ k \in DOMAIN heap[id]
                       /\ heap[id][k].kind = "ref"
                       /\ override[k].kind = "dict"
             merged == IF nested
                       THEN DeepMergeKeys(heap, heap[id][k].id, override[k].d,
                                          DOMAIN override[k].d)
                       ELSE [heap EXCEPT ![id] = Update(@, [x \in {k} |-> override[k]])]
         IN  DeepMergeKeys(merged, id, override, keys \ {k})

\* deep_merge(base, override)
DeepMerge(heap, id, override) == DeepMergeKeys(heap, id, override, DOMAIN override)

\* IncusClient._load_config: deep_merge(DEFAULT_CFG.copy(), pillar_cfg); the
\* client's config is the object "config"
LoadConfig(heap, pillar_cfg) ==
    DeepMerge(ShallowCopy(heap, "DEFAULT_CFG", "config"), "config", pillar_cfg)

\* the items of an object with the dictionaries it refers to written out
Resolved(heap, id) ==
    [k \in DOMAIN heap[id] |->
       IF heap[id][k].kind = "ref" THEN Literal(heap[heap[id][k].id]) ELSE heap[id][k]]

\* ------------------------------------------------------------------------
\* Runs of the state functions
\* ------------------------------------------------------------------------
\* the record of a run
Ran(fn, test, r) ==
    [fn |-> fn, test |-> test, result |-> r.result, changes |-> r.changes,
     log |-> r.log]

\* A dry run sends no request after its reads, so the outcomes of later
\* requests are drawn for real runs only.
RunInstancePresent(test, up, up2, ok) ==
    /\ family = "instance"
    /\ test => up2 /\ ok
    /\ LET r == InstancePresent(instances, InstanceName, desired, test, up, up2, ok) IN
       /\ instances' = r.cp
       /\ run' = Ran("instance_present", test, r)
    /\ UNCHANGED <<inflight, family, desired, cprofiles, snapshots, images, aliases, resources>>
    /\ UNCHANGED clientVars

RunInstanceAbsent(force, test, up, up2, okStop, ok) ==
    /\ family = "lifecycle"
    /\ test => up2 /\ okStop /\ ok
    /\ ~force => up2 /\ okStop
    /\ LET r == InstanceAbsent(instances, InstanceName, force, test, up, up2, okStop, ok) IN
       /\ instances' = r.cp
       /\ run' = Ran("instance_absent", test, r)
    /\ UNCHANGED <<inflight, family, desired, cprofiles, snapshots, images, aliases, resources>>
    /\ UNCHANGED clientVars

\* instance_running (target "Running") and instance_stopped (target "Stopped")
RunInstanceInState(target, test, up, ok) ==
    /\ family = "lifecycle"
    /\ test => ok
    /\ LET r == InstanceInState(instances, InstanceName, target, test, up, ok) IN
       /\ instances' = r.cp
       /\ run' = Ran(IF target = "Running" THEN "instance_running"
                     ELSE "instance_stopped", test, r)
    /\ UNCHANGED <<inflight, family, desired, cprofiles, snapshots, images, aliases, resources>>
    /\ UNCHANGED clientVars

RunVolumeDetached(test, up, up2, ok) ==
    /\ family = "volume"
    /\ test => up2 /\ ok
    /\ LET r == VolumeDetached(instances, InstanceName, VolumeName, "default",
                               test, up, up2, ok) IN
       /\ instances' = r.cp
       /\ run' = Ran("volume_detached", test, r)
    /\ UNCHANGED <<inflight, family, desired, cprofiles, snapshots, images, aliases, resources>>
    /\ UNCHANGED clientVars

RunProfilePresent(test, up, up2, ok) ==
    /\ family = "profile"
    /\ test => up2 /\ ok
    /\ LET r == ProfilePresent(cprofiles, ProfileName, desired, test, up, up2, ok) IN
       /\ cprofiles' = r.cp
       /\ run' = Ran("profile_present", test, r)
    /\ UNCHANGED <<inflight, family, desired, instances, snapshots, images, aliases, resources>>
    /\ UNCHANGED clientVars

RunProfileAbsent(test, up, ok) ==
    /\ family = "profile"
    /\ test => ok
    /\ LET r == ProfileAbsent(cprofiles, ProfileName, test, up, ok) IN
       /\ cprofiles' = r.cp
       /\ run' = Ran("profile_absent", test, r)
    /\ UNCHANGED <<inflight, family, desired, instances, snapshots, images, aliases, resources>>
    /\ UNCHANGED clientVars

RunInstanceSnapshotPresent(test, up, upList, ok) ==
    /\ family = "snapshot"
    /\ Now(snapshots) <= MaxClock
    /\ test => ok
    /\ LET r == InstanceSnapshotPresent(instances, snapshots, InstanceName,
                                        desired.name, test, up, upList, ok) IN
       /\ snapshots' = r.cp
       /\ run' = Ran("instance_snapshot_present", test, r)
    /\ UNCHANGED <<inflight, family, desired, instances, cprofiles, images, aliases, resources>>
    /\ UNCHANGED clientVars

RunInstanceSnapshotAbsent(test, up, upList, ok) ==
    /\ family = "snapshot"
    /\ test => ok
    /\ LET r == InstanceSnapshotAbsent(instances, snapshots, InstanceName,
                                       desired.name, test, up, upList, ok) IN
       /\ snapshots' = r.cp
       /\ run' = Ran("instance_snapshot_absent", test, r)
    /\ UNCHANGED <<inflight, family, desired, instances, cprofiles, images, aliases, resources>>
    /\ UNCHANGED clientVars

RunInstanceSnapshotRestored(test, up, upList, ok) ==
    /\ family = "snapshot"
    /\ test => ok
    /\ LET r == InstanceSnapshotRestored(instances, snapshots, InstanceName,
                                         desired.name, test, up, upList, ok) IN
       /\ instances' = r.cp
       /\ run' = Ran("instance_snapshot_restored", test, r)
    /\ UNCHANGED <<inflight, family, desired, cprofiles, snapshots, images, aliases, resources>>
    /\ UNCHANGED clientVars

\* fail holds the snapshots whose DELETE the control plane refuses, drawn from
\* those the run may delete
RunInstanceSnapshotsRotated ==
    /\ family = "rotation"
    /\ \E test, up, upList \in BOOLEAN,
          fail \in SUBSET Range(ToDelete(snapshots, desired.pattern, desired.keep)) :
          /\ test \/ ~up \/ ~upList => fail = {}
          /\ LET r == InstanceSnapshotsRotated(instances, snapshots, InstanceName,
                                               desired.pattern, desired.keep,
                                               test, up, upList, fail) IN
             /\ snapshots' = r.cp
             /\ run' = Ran("instance_snapshots_rotated", test, r)
    /\ UNCHANGED <<inflight, family, desired, instances, cprofiles, images, aliases, resources>>
    /\ UNCHANGED clientVars

\* the names a run of instance_snapshots_managed may send a request about
ManagedNames(config, snaps) ==
    UNION { {config[i].name} \cup Range(ToDelete(snaps, config[i].pattern,
                                                 IF config[i].keep = NoneCode
                                                 THEN 0 ELSE config[i].keep))
            : i \in DOMAIN config }

\* fail holds the snapshots whose POST or DELETE the control plane refuses,
\* upd is how the update of expires_at ends
RunInstanceSnapshotsManaged ==
    /\ family = "managed"
    /\ Now(snapshots) <= MaxClock
    /\ \E test, up, upList \in BOOLEAN,
          fail \in SUBSET ManagedNames(desired.config, snapshots),
          upd \in {"ok", "unreachable", "refused"} :
          /\ test \/ ~up \/ ~upList => fail = {} /\ upd = "ok"
          /\ upd # "ok" => \E i \in DOMAIN desired.config : desired.config[i].expires
          /\ LET r == InstanceSnapshotsManaged(instances, snapshots, InstanceName,
                                               desired.config, test, up, upList,
                                               fail, upd) IN
             /\ snapshots' = r.cp
             /\ run' = Ran("instance_snapshots_managed", test, r)
    /\ UNCHANGED <<inflight, family, desired, instances, cprofiles, images, aliases, resources>>
    /\ UNCHANGED clientVars

\* the reads of a dry run are those of the state function itself
RunImagePresent(test, fault) ==
    /\ family = "image"
    /\ test => fault.down \subseteq {"list", "alias", "alias_list"}
               /\ ~fault.refused /\ fault.fail = {}
    /\ LET r == ImagePresent(images, aliases, ImageName, desired, test, fault) IN
       /\ images' = r.cp.images
       /\ aliases' = r.cp.aliases
       /\ run' = Ran("image_present", test, r)
    /\ UNCHANGED <<inflight, family, desired, instances, cprofiles, snapshots, resources>>
    /\ UNCHANGED clientVars

RunImageAbsent(byAlias, test, fault) ==
    /\ family = "image"
    /\ fault.fail = {}
    /\ fault.down \subseteq {"alias", "get"}
    /\ test => ~fault.refused
    /\ LET r == ImageAbsent(images, aliases, desired.fingerprint,
                            IF byAlias THEN ImageName ELSE "", test, fault) IN
       /\ images' = r.cp.images
       /\ aliases' = r.cp.aliases
       /\ run' = Ran("image_absent", test, r)
    /\ UNCHANGED <<inflight, family, desired, instances, cprofiles, snapshots, resources>>
    /\ UNCHANGED clientVars

\* what an accessor called on its own leaves in run
Called(fn, success, log) ==
    [fn |-> fn, test |-> FALSE, result |-> IF success THEN "True" ELSE "False",
     changes |-> EmptyDict, log |-> log]

\* no PUT follows a GET the accessor gives up on
RunStoragePoolUpdate(got, ok) ==
    /\ family = "accessor"
    /\ IsDict(desired.config)
    /\ got # "bare" => ok
    /\ LET r == StoragePoolUpdate(resources.storage_pool, desired.config,
                                  desired.description, got, ok) IN
       /\ resources' = [resources EXCEPT !.storage_pool = r.pool]
       /\ run' = Called("storage_pool_update", r.success, r.log)
    /\ UNCHANGED <<inflight, family, desired, instances, cprofiles, snapshots, images, aliases>>
    /\ UNCHANGED clientVars

RunSettingsUpdate(got, ok) ==
    /\ family = "accessor"
    /\ got # "full" => ok
    /\ LET r == SettingsUpdate(resources.settings, desired.config, got, ok) IN
       /\ resources' = [resources EXCEPT !.settings = r.settings]
       /\ run' = Called("settings_update", r.success, r.log)
    /\ UNCHANGED <<inflight, family, desired, instances, cprofiles, snapshots, images, aliases>>
    /\ UNCHANGED clientVars

\* a dry run sends nothing after its read
RunStoragePoolConfig(test, got, got2, ok) ==
    /\ family = "accessor"
    /\ IsDict(desired.config)
    /\ test => got2 = "bare" /\ ok
    /\ got2 # "bare" => ok
    /\ LET r == StoragePoolConfig(resources.storage_pool, desired.config,
                                  desired.description, test, got, got2, ok) IN
       /\ resources' = [resources EXCEPT !.storage_pool = r.cp]
       /\ run' = Ran("storage_pool_config", test, r)
    /\ UNCHANGED <<inflight, family, desired, instances, cprofiles, snapshots, images, aliases>>
    /\ UNCHANGED clientVars

RunSettingsReplace(got, ok) ==
    /\ family = "accessor"
    /\ got # "full" => ok
    /\ LET r == SettingsReplace(resources.settings, desired.config, got, ok) IN
       /\ resources' = [resources EXCEPT !.settings = r.settings]
       /\ run' = Called("settings_replace", r.success, r.log)
    /\ UNCHANGED <<inflight, family, desired, instances, cprofiles, snapshots, images, aliases>>
    /\ UNCHANGED clientVars

\* a dry run sends nothing after its read; no PUT follows a GET that
\* settings_replace gives up on
RunSettingsManaged(test, got, got2, ok) ==
    /\ family = "accessor"
    /\ IsDict(desired.config)
    /\ test => got2 = "full" /\ ok
    /\ got2 # "full" => ok
    /\ LET r == SettingsManaged(resources.settings, desired.config, test, got, got2, ok) IN
       /\ resources' = [resources EXCEPT !.settings = r.cp]
       /\ run' = Ran("settings_managed", test, r)
    /\ UNCHANGED <<inflight, family, desired, instances, cprofiles, snapshots, images, aliases>>
    /\ UNCHANGED clientVars

\* a dry run sends nothing after its read; no PUT follows a GET that
\* network_update gives up on
RunNetworkPresent(test, got, got2, ok) ==
    /\ family = "network"
    /\ test => got2 = "bare" /\ ok
    /\ got2 # "bare" => ok
    /\ LET r == NetworkPresent(resources.network, desired.config,
                               desired.description, test, got, got2, ok) IN
       /\ resources' = [resources EXCEPT !.network = r.cp]
       /\ run' = Ran("network_present", test, r)
    /\ UNCHANGED <<inflight, family, desired, instances, cprofiles, snapshots, images, aliases>>
    /\ UNCHANGED clientVars

\* _client(): IncusClient() with the pillar configuration of the call
RunLoadConfig(pillar_cfg) ==
    /\ family = "config"
    /\ resources' = LoadConfig(resources, pillar_cfg)
    /\ run' = [fn |-> "_load_config", test |-> FALSE, result |-> "True",
               changes |-> pillar_cfg, log |-> << >>]
    /\ UNCHANGED <<inflight, family, desired, instances, cprofiles, snapshots, images, aliases>>
    /\ UNCHANGED clientVars

\* image_create_from_remote called on its own, with aliases=["img"]
RunImageCreateFromRemote(args, fault) ==
    /\ family = "remote"
    /\ fault.down = {}
    /\ LET r == ImageCreateFromRemote(images, aliases, args, FALSE, <<ImageName>>, fault) IN
       /\ images' = r.images
       /\ aliases' = r.aliases
       /\ run' = Called("image_create_from_remote", r.success, r.log)
    /\ UNCHANGED <<inflight, family, desired, instances, cprofiles, snapshots, resources>>
    /\ UNCHANGED clientVars

\* the config argument of a concurrent instance_update: one key
UpdateConfigs ==
    { [k \in {"limits.cpu"} |-> <<"str", "2">>],
      [k \in {"limits.memory"} |-> <<"str", "1">>] }

\* instance_update(name, config) up to its PUT: the caller c fetches the
\* instance and keeps the copy it will merge into
InstanceUpdateFetch(c, config, up) ==
    /\ family = "race"
    /\ inflight.calls[c].pc = "idle"
    /\ LET current == InstanceGet(instances, InstanceName, up) IN
       inflight' =
          [calls |-> [inflight.calls EXCEPT
                         ![c] = IF current.success
                                THEN [pc |-> "fetched", config |-> config,
                                      current |-> current.instance,
                                      success |-> FALSE]
                                ELSE [pc |-> "done", config |-> config,
                                      current |-> EmptyDict, success |-> FALSE]],
           order |-> Append(inflight.order, <<"GET", c>>)]
    /\ UNCHANGED <<family, desired, instances, cprofiles, snapshots, images, aliases,
                   resources, run>>
    /\ UNCHANGED clientVars

InstanceUpdatePut_Refetch(c, ok) ==
    /\ family = "race"
    /\ inflight.calls[c].pc = "fetched"
    /\ LET body == [instances[InstanceName] EXCEPT
                       !.config = Update(@, inflight.calls[c].config)]
           done == ok /\ ValidConfig(body.config)
       IN  /\ instances' = IF done THEN [instances EXCEPT ![InstanceName] = body]
                           ELSE instances
           /\ inflight' =
                 [calls |-> [inflight.calls EXCEPT ![c].pc = "done",
                                                   ![c].success = done],
                  order |-> Append(inflight.order, <<"PUT", c>>)]
    /\ UNCHANGED <<family, desired, cprofiles, snapshots, images, aliases, resources,
                   run>>
    /\ UNCHANGED clientVars

\* the rest of instance_update: the caller c merges its config into the copy
\* it fetched and PUTs the result
InstanceUpdatePut(c, ok) ==
    /\ family = "race"
    /\ inflight.calls[c].pc = "fetched"
    /\ LET body == InstanceUpdateBody(inflight.calls[c].current,
                                      inflight.calls[c].config, EmptyDict,
                                      [some |-> FALSE, val |-> << >>])
           done == ok /\ ValidConfig(body.config)
       IN  /\ instances' = IF done THEN [instances EXCEPT ![InstanceName] = body]
                           ELSE instances
           /\ inflight' =
                 [calls |-> [inflight.calls EXCEPT ![c].pc = "done",
                                                   ![c].success = done],
                  order |-> Append(inflight.order, <<"PUT", c>>)]
    /\ UNCHANGED <<family, desired, cprofiles, snapshots, images, aliases, resources,
                   run>>
    /\ UNCHANGED clientVars

\* lists of d1 and d2 in the order the control plane created them
ShortLists ==
    { l \in SnapshotLists :
        /\ \A i \in DOMAIN l : l[i].name \in {D1, D2}
        /\ \A i, j \in DOMAIN l : i < j => l[i].created_at <= l[j].created_at }

\* no entry, one entry, or an entry after one that only creates d3 or lacks
\* its name
ManagedConfigs ==
    {<< >>}
    \cup { <<e>> : e \in ManagedEntries }
    \cup { <<e, f>> : e \in { x \in ManagedEntries :
                                /\ x.pattern = << >> /\ x.keep = NoneCode
                                /\ x.name # D1 /\ ~x.expires },
                      f \in { x \in ManagedEntries : ~x.expires } }

\* The control plane and the declared specification of one family of state
\* functions; the other families' resources are absent.  instance_present is
\* run from every stopped instance (or none) for every declared
\* specification; instance_absent, instance_running and instance_stopped take
\* no specification; the snapshot state functions are declared for one name,
\* for a pattern and a keep count, or with a snapshots_config
EngineInit ==
    /\ ClientIdle
    /\ run = NoRun
    /\ inflight = NoUpdates
    /\ \/ /\ family = "instance"
          /\ desired \in InstanceSpecs
          /\ instances \in Dicts({InstanceName}, { i \in StoredInstances : i.status = "Stopped" })
          /\ cprofiles = EmptyDict
          /\ snapshots = << >>
          /\ images = EmptyDict
          /\ aliases \in StoredAliases(images)
          /\ resources = EmptyDict
       \/ /\ family = "lifecycle"
          /\ desired = NoSpec
          /\ instances \in Dicts({InstanceName}, { i \in StoredInstances : i.devices = EmptyDict })
          /\ cprofiles = EmptyDict
          /\ snapshots = << >>
          /\ images = EmptyDict
          /\ aliases \in StoredAliases(images)
          /\ resources = EmptyDict
       \/ /\ family = "volume"
          /\ desired = NoSpec
          /\ instances \in
                [{InstanceName} ->
                    [config : StoredConfigs,
                     devices : Dicts({"eth0", VolumeName},
                                     {[type |-> "nic"],
                                      [type |-> "disk", pool |-> "default",
                                       source |-> VolumeName],
                                      [type |-> "disk", pool |-> "other",
                                       source |-> VolumeName]}),
                     profiles : {<<"default">>},
                     status : {"Stopped"}]]
          /\ cprofiles = EmptyDict
          /\ snapshots = << >>
          /\ images = EmptyDict
          /\ aliases = EmptyDict
          /\ resources = EmptyDict
       \/ /\ family = "profile"
          /\ desired \in ProfileSpecs
          /\ instances = EmptyDict
          /\ cprofiles \in Dicts({ProfileName}, StoredProfiles)
          /\ snapshots = << >>
          /\ images = EmptyDict
          /\ aliases \in StoredAliases(images)
          /\ resources = EmptyDict
       \/ /\ family = "snapshot"
          /\ desired \in [name : {D1, D3}]
          /\ instances = [n \in {InstanceName} |-> SnapshotInstance]
          /\ cprofiles = EmptyDict
          /\ snapshots \in ShortLists
          /\ images = EmptyDict
          /\ aliases \in StoredAliases(images)
          /\ resources = EmptyDict
       \/ /\ family = "rotation"
          /\ desired \in [pattern : Patterns, keep : 0..MaxKeep]
          /\ instances = [n \in {InstanceName} |-> SnapshotInstance]
          /\ cprofiles = EmptyDict
          /\ snapshots \in SnapshotLists
          /\ images = EmptyDict
          /\ aliases \in StoredAliases(images)
          /\ resources = EmptyDict
       \/ /\ family = "managed"
          /\ desired \in [config : ManagedConfigs]
          /\ instances = [n \in {InstanceName} |-> SnapshotInstance]
          /\ cprofiles = EmptyDict
          /\ snapshots \in ShortLists
          /\ images = EmptyDict
          /\ aliases \in StoredAliases(images)
          /\ resources = EmptyDict
       \/ /\ family = "accessor"
          /\ desired \in [config : SuppliedConfigs \cup {NotADict},
                          description : {[some |-> FALSE, val |-> ""],
                                         [some |-> TRUE, val |-> "web"]}]
          /\ instances = EmptyDict
          /\ cprofiles = EmptyDict
          /\ snapshots = << >>
          /\ images = EmptyDict
          /\ aliases = EmptyDict
          /\ resources \in [storage_pool : [config : HeldConfigs, description : {""}],
                            settings : [config : HeldConfigs]]
       \/ /\ family = "network"
          /\ desired \in [config : SuppliedConfigs,
                          description : {[some |-> FALSE, val |-> ""],
                                         [some |-> TRUE, val |-> ""],
                                         [some |-> TRUE, val |-> "web"]}]
          /\ instances = EmptyDict
          /\ cprofiles = EmptyDict
          /\ snapshots = << >>
          /\ images = EmptyDict
          /\ aliases = EmptyDict
          /\ resources \in [network : [config : HeldConfigs, description : {"", "web"}]]
       \/ /\ family = "config"
          /\ desired = NoSpec
          /\ instances = EmptyDict
          /\ cprofiles = EmptyDict
          /\ snapshots = << >>
          /\ images = EmptyDict
          /\ aliases = EmptyDict
          /\ resources = ModuleHeap
       \/ /\ family = "race"
          /\ desired = NoSpec
          /\ instances \in [{InstanceName} ->
                              { i \in StoredInstances :
                                  i.status = "Stopped" /\ i.devices = EmptyDict }]
          /\ cprofiles = EmptyDict
          /\ snapshots = << >>
          /\ images = EmptyDict
          /\ aliases = EmptyDict
          /\ resources = EmptyDict
       \/ /\ family = "remote"
          /\ desired = NoSpec
          /\ instances = EmptyDict
          /\ cprofiles = EmptyDict
          /\ snapshots = << >>
          /\ images \in StoredImages
          /\ aliases \in StoredAliases(images)
          /\ resources = EmptyDict
       \/ /\ family = "image"
          /\ desired \in ImageSpecs
          /\ instances = EmptyDict
          /\ cprofiles = EmptyDict
          /\ snapshots = << >>
          /\ images \in StoredImages
          /\ aliases \in StoredAliases(images)
          /\ resources = EmptyDict

EngineNext ==
    \/ \E test, up, up2, ok \in BOOLEAN : RunInstancePresent(test, up, up2, ok)
    \/ \E force, test, up, up2, okStop, ok \in BOOLEAN :
          RunInstanceAbsent(force, test, up, up2, okStop, ok)
    \/ \E target \in {"Running", "Stopped"}, test, up, ok \in BOOLEAN :
          RunInstanceInState(target, test, up, ok)
    \/ \E test, up, up2, ok \in BOOLEAN : RunVolumeDetached(test, up, up2, ok)
    \/ \E test, up, up2, ok \in BOOLEAN : RunProfilePresent(test, up, up2, ok)
    \/ \E test, up, ok \in BOOLEAN : RunProfileAbsent(test, up, ok)
    \/ \E test, up, upList, ok \in BOOLEAN :
          RunInstanceSnapshotPresent(test, up, upList, ok)
    \/ \E test, up, upList, ok \in BOOLEAN :
          RunInstanceSnapshotAbsent(test, up, upList, ok)
    \/ \E test, up, upList, ok \in BOOLEAN :
          RunInstanceSnapshotRestored(test, up, upList, ok)
    \/ RunInstanceSnapshotsRotated
    \/ RunInstanceSnapshotsManaged
    \/ \E test \in BOOLEAN, fault \in ImageFaults : RunImagePresent(test, fault)
    \/ \E byAlias, test \in BOOLEAN, fault \in ImageFaults :
          RunImageAbsent(byAlias, test, fault)
    \/ \E got \in GetAnswers, ok \in BOOLEAN : RunStoragePoolUpdate(got, ok)
    \/ \E got \in GetAnswers, ok \in BOOLEAN : RunSettingsUpdate(got, ok)
    \/ \E got \in GetAnswers, ok \in BOOLEAN : RunSettingsReplace(got, ok)
    \/ \E test, ok \in BOOLEAN, got, got2 \in GetAnswers :
          RunStoragePoolConfig(test, got, got2, ok)
    \/ \E test, ok \in BOOLEAN, got, got2 \in GetAnswers :
          RunSettingsManaged(test, got, got2, ok)
    \/ \E test, ok \in BOOLEAN, got, got2 \in GetAnswers :
          RunNetworkPresent(test, got, got2, ok)
    \/ \E pillar_cfg \in PillarConfigs : RunLoadConfig(pillar_cfg)
    \/ \E args \in RemoteArgs, fault \in ImageFaults :
          RunImageCreateFromRemote(args, fault)
    \/ \E c \in Callers, config \in UpdateConfigs, up \in BOOLEAN :
          InstanceUpdateFetch(c, config, up)
    \/ \E c \in Callers, ok \in BOOLEAN : InstanceUpdatePut(c, ok)

EngineSpec == EngineInit /\ [][EngineNext]_vars

\* ------------------------------------------------------------------------
\* Vocabulary of the properties
\* ------------------------------------------------------------------------
\* the call is past _sync_request
Returned == pc \in {"return", "done"}

\* _sync_request entered _wait_for_operation
Waited == opurl # << >>

\* the status a poll saw, NoneCode for a poll that failed
SeenStatus(i) == IF IsError(polled[i]) THEN NoneCode ELSE PollStatus(polled[i])

LastSeen == SeenStatus(Len(polled))

\* the requests of the log that are polls of the operation
PollRequests ==
    { i \in 1..Len(reqlog) :
        reqlog[i] = [method |-> "GET", path |-> <<"1.0", "operations", "abc">>] }

\* ------------------------------------------------------------------------
\* C1
\* ------------------------------------------------------------------------
\* C1: when the immediate response of a mutating accessor call has type
\* "async", the call returns only after _wait_for_operation reached a
\* terminal outcome: the raw async envelope is never the result of
\* _sync_request and the accessor never reports success without a poll that
\* saw status 200.
C1_AsyncAlwaysResolved ==
    (Returned /\ Get(immediate, "type", "") = "async")
        => /\ Waited
           /\ result # immediate
           /\ (pc = "done" /\ Get(outcome, "success", FALSE))
                => (polled # << >> /\ LastSeen = 200)

\* ------------------------------------------------------------------------
\* C2
\* ------------------------------------------------------------------------
\* the state after a poll, by the status the poll saw
C2_Classified ==
    (polled # << >> /\ ~IsError(polled[Len(polled)]) /\ events[Len(events)] = "poll")
        => /\ LastSeen \in {100, 101, 103} => pc = "sleep"
           /\ LastSeen = 200
                => Returned /\ result = polled[Len(polled)] /\ ~IsError(result)
           /\ LastSeen = 400
                => /\ Returned
                   /\ result.success = FALSE
                   /\ result.error =
                        Get(polled[Len(polled)].metadata, "err", "Operation failed")
           /\ LastSeen \notin {100, 101, 103, 200, 400}
                => /\ Returned
                   /\ result.success = FALSE
                   /\ result.error = "Unexpected status_code"

\* a non-terminal status is followed by a sleep of the poll interval and
\* then the top of the loop; a terminal one by no further poll
C2_Steps ==
    /\ pc = "sleep" => (pc' = "loop" /\ clock' = clock + interval /\ polled' = polled)
    /\ Returned => (polled' = polled /\ reqlog' = reqlog /\ events' = events)

\* C2: every successful poll response is classified by its status_code:
\* 100, 101 and 103 are non-terminal (sleep the interval, back to the loop),
\* 200 is terminal success, 400 is terminal failure carrying the operation's
\* err string, any other code is a terminal failure with no further poll.
C2_PollClassification == [](C2_Classified) /\ [][C2_Steps]_vars

\* a poll saw 101 and the wait went to sleep
C2_Witness == polled # << >> /\ LastSeen = 101 /\ pc = "sleep" /\ Len(polled) = 2

\* ------------------------------------------------------------------------
\* C3
\* ------------------------------------------------------------------------
\* C3: the wait returns a success result only if one of its polls saw
\* status 200, and a wait all of whose polls saw a running operation returns
\* the timeout failure.
C3_NoFalseSuccess ==
    (Returned /\ Waited)
        => /\ (~IsError(result) \/ Get(result, "success", FALSE))
                => \E i \in 1..Len(polled) : SeenStatus(i) = 200
           /\ (polled # << >> /\ \A i \in 1..Len(polled) : SeenStatus(i) = 103)
                => (result = TimeoutResult /\ clock - started > timeout)

\* the operation stayed at 103 for two polls and the wait timed out
C3_Witness ==
    /\ pc = "done"
    /\ Len(polled) >= 2
    /\ \A i \in 1..Len(polled) : SeenStatus(i) = 103
    /\ result = TimeoutResult
    /\ outcome = [success |-> FALSE, error |-> TimeoutResult.error]

\* ------------------------------------------------------------------------
\* C4
\* ------------------------------------------------------------------------
\* the timeout is measured from entry
C4_MeasuredFromEntry == pc = "wait" => started' = clock

\* at the top of the loop an elapsed time above the timeout ends the wait
\* with the timeout failure, and from then on nothing is polled
C4_TimeoutEnds ==
    /\ (pc = "loop" /\ clock - started > timeout)
            => (pc' = "return" /\ result' = TimeoutResult)
    /\ (pc \in {"loop", "sleep", "return", "done"} /\ clock - started > timeout)
            => (reqlog' = reqlog /\ polled' = polled)
    /\ (pc = "loop" /\ ~(clock - started > timeout)) => Len(polled') = Len(polled) + 1

\* C4: with a clock that advances with each sleep the wait always
\* terminates; the timeout is measured from entry, and once the elapsed time
\* exceeds it the wait returns the timeout failure without a further poll.
C4_WaitTerminates ==
    /\ [](pc = "wait" => <>(pc = "return"))
    /\ [][C4_MeasuredFromEntry /\ C4_TimeoutEnds]_vars

\* a wait entered after the clock had advanced ended by timeout
C4_Witness ==
    /\ pc = "done"
    /\ started > 0
    /\ result = TimeoutResult
    /\ Len(polled) >= 2

\* ------------------------------------------------------------------------
\* C5
\* ------------------------------------------------------------------------
\* C5: a create call answered with {type: "async", metadata: {operation:
\* "/1.0/operations/abc"}} returns success after exactly two polls of
\* operation abc, the second of which saw status 200.
C5_CreateScenario ==
    (pc = "done" /\ call = "create" /\ immediate = AsyncMetadataOnly)
        => /\ Get(outcome, "success", FALSE)
           /\ Cardinality(PollRequests) = 2
           /\ Len(polled) = 2
           /\ LastSeen = 200

\* ------------------------------------------------------------------------
\* C6
\* ------------------------------------------------------------------------
\* polls and sleeps alternate, starting with a poll
C6_Alternate ==
    \A i \in 1..Len(events) :
        events[i] = (IF i % 2 = 1 THEN "poll" ELSE "sleep")

\* no success without a poll
C6_NoShortCircuit ==
    (Returned /\ Waited /\ ~IsError(result)) => polled # << >>

\* each sleep lasts the poll interval
C6_SleepStep ==
    (Len(events') > Len(events) /\ events'[Len(events')] = "sleep")
        => clock' = clock + interval

\* C6: the wait never busy-polls: between two consecutive polls there is
\* exactly one sleep of the poll interval, and no success is returned
\* without a poll.
C6_NoBusyPoll == [](C6_Alternate /\ C6_NoShortCircuit) /\ [][C6_SleepStep]_vars

\* three polls with a sleep between each two
C6_Witness == events = <<"poll", "sleep", "poll", "sleep", "poll">>

\* ------------------------------------------------------------------------
\* C7
\* ------------------------------------------------------------------------
\* C7: a wait called with a reference that does not start with
\* "/1.0/operations/" returns a failure at once: no poll, no sleep.
C7_MalformedReference ==
    (Returned /\ Waited /\ ~(Len(opurl) >= 3 /\ SubSeq(opurl, 1, 2) = <<"1.0", "operations">>))
        => /\ result = InvalidUrlResult
           /\ events = << >>
           /\ polled = << >>
           /\ Len(reqlog) = 1
           /\ clock = started

\* the wait was entered with "/1.0/instances/c1" and the accessor failed
C7_Witness ==
    /\ pc = "done"
    /\ opurl = MalformedUrl
    /\ outcome = [success |-> FALSE, error |-> InvalidUrlResult.error]

\* ------------------------------------------------------------------------
\* C8
\* ------------------------------------------------------------------------
\* C8: _sync_request issues exactly one _request; an error result is
\* returned unchanged with no poll; for an async result the operation
\* reference is extracted and the result of the wait is returned in its
\* place; any other result is returned unchanged with no poll.
C8_SyncRequestContract ==
    Returned
        => /\ Cardinality({ i \in 1..Len(reqlog) : i \notin PollRequests }) = 1
           /\ SyncIsError(immediate) => (result = immediate /\ polled = << >>)
           /\ (~SyncIsError(immediate) /\ Get(immediate, "type", "") = "async")
                => (Waited /\ result # immediate)
           /\ (~SyncIsError(immediate) /\ Get(immediate, "type", "") # "async")
                => (result = immediate /\ polled = << >>)

\* ------------------------------------------------------------------------
\* Idempotence and dry runs of the state functions
\* ------------------------------------------------------------------------
\* the last run was a real run of fn that returned result True
Converged(fn) == run.fn = fn /\ ~run.test /\ run.result = "True"

\* what a run reports when nothing is left to do
NothingToDo(r) == r.result = "True" /\ r.changes = EmptyDict /\ r.log = << >>

\* C9: after a successful real run of instance_present or profile_present, a
\* second real run with the same specification whose requests all succeed
\* reports result True with empty changes and sends no update.
C9_Idempotent ==
    /\ Converged("instance_present")
          => NothingToDo(InstancePresent(instances, InstanceName, desired,
                                         FALSE, TRUE, TRUE, TRUE))
    /\ Converged("profile_present")
          => NothingToDo(ProfilePresent(cprofiles, ProfileName, desired,
                                        FALSE, TRUE, TRUE, TRUE))

\* the control plane
ControlPlane == <<instances, cprofiles, snapshots, images, aliases, resources>>

\* C10: a run with the dry-run flag set sends no create, update, delete,
\* restore or state-change request and leaves the control plane as it was.
C10_DryRunNonMutation ==
    [][run'.test => (ControlPlane' = ControlPlane /\ run'.log = << >>)]_vars

\* a dry run of instance_snapshots_managed that reported a snapshot to create
\* and snapshots to rotate
C10_Witness ==
    /\ run.fn = "instance_snapshots_managed"
    /\ run.test
    /\ run.result = "None"
    /\ {"created", "rotated"} \subseteq DOMAIN run.changes

\* ------------------------------------------------------------------------
\* What a dry run reports against what a real run reports
\* ------------------------------------------------------------------------
\* a run of image_present or image_absent in which nothing goes wrong
NoFault == [down |-> {}, refused |-> FALSE, fail |-> {}]

\* the dry run reports the changes the successful real run reports
SameChanges(dry, real) == real.result = "True" => dry.changes = real.changes

\* C11: from every live state and for every declared specification, the
\* changes a dry run of a state function reports are the changes a successful
\* real run from the same state reports, the create path included.
C11_DryRunReportsRealChanges ==
    /\ family = "instance"
          => SameChanges(
                InstancePresent(instances, InstanceName, desired, TRUE, TRUE, TRUE, TRUE),
                InstancePresent(instances, InstanceName, desired, FALSE, TRUE, TRUE, TRUE))
    /\ family = "lifecycle"
          => /\ SameChanges(
                   InstanceAbsent(instances, InstanceName, TRUE, TRUE, TRUE, TRUE, TRUE, TRUE),
                   InstanceAbsent(instances, InstanceName, TRUE, FALSE, TRUE, TRUE, TRUE, TRUE))
             /\ \A target \in {"Running", "Stopped"} :
                   SameChanges(
                      InstanceInState(instances, InstanceName, target, TRUE, TRUE, TRUE),
                      InstanceInState(instances, InstanceName, target, FALSE, TRUE, TRUE))
    /\ family = "profile"
          => /\ SameChanges(
                   ProfilePresent(cprofiles, ProfileName, desired, TRUE, TRUE, TRUE, TRUE),
                   ProfilePresent(cprofiles, ProfileName, desired, FALSE, TRUE, TRUE, TRUE))
             /\ SameChanges(
                   ProfileAbsent(cprofiles, ProfileName, TRUE, TRUE, TRUE),
                   ProfileAbsent(cprofiles, ProfileName, FALSE, TRUE, TRUE))
    /\ family = "snapshot"
          => /\ SameChanges(
                   InstanceSnapshotPresent(instances, snapshots, InstanceName,
                                           desired.name, TRUE, TRUE, TRUE, TRUE),
                   InstanceSnapshotPresent(instances, snapshots, InstanceName,
                                           desired.name, FALSE, TRUE, TRUE, TRUE))
             /\ SameChanges(
                   InstanceSnapshotAbsent(instances, snapshots, InstanceName,
                                          desired.name, TRUE, TRUE, TRUE, TRUE),
                   InstanceSnapshotAbsent(instances, snapshots, InstanceName,
                                          desired.name, FALSE, TRUE, TRUE, TRUE))
             /\ SameChanges(
                   InstanceSnapshotRestored(instances, snapshots, InstanceName,
                                            desired.name, TRUE, TRUE, TRUE, TRUE),
                   InstanceSnapshotRestored(instances, snapshots, InstanceName,
                                            desired.name, FALSE, TRUE, TRUE, TRUE))
    /\ family = "rotation"
          => SameChanges(
                InstanceSnapshotsRotated(instances, snapshots, InstanceName,
                                         desired.pattern, desired.keep,
                                         TRUE, TRUE, TRUE, {}),
                InstanceSnapshotsRotated(instances, snapshots, InstanceName,
                                         desired.pattern, desired.keep,
                                         FALSE, TRUE, TRUE, {}))
    /\ family = "managed"
          => SameChanges(
                InstanceSnapshotsManaged(instances, snapshots, InstanceName,
                                         desired.config, TRUE, TRUE, TRUE, {}, "ok"),
                InstanceSnapshotsManaged(instances, snapshots, InstanceName,
                                         desired.config, FALSE, TRUE, TRUE, {}, "ok"))
    /\ family = "image"
          => /\ SameChanges(
                   ImagePresent(images, aliases, ImageName, desired, TRUE, NoFault),
                   ImagePresent(images, aliases, ImageName, desired, FALSE, NoFault))
             /\ \A alias \in {"", ImageName} :
                   SameChanges(
                      ImageAbsent(images, aliases, desired.fingerprint, alias,
                                  TRUE, NoFault),
                      ImageAbsent(images, aliases, desired.fingerprint, alias,
                                  FALSE, NoFault))

\* ------------------------------------------------------------------------
\* Merging updates
\* ------------------------------------------------------------------------
\* sent is current overridden by the supplied keys
Merged(current, supplied, sent) ==
    /\ DOMAIN sent = DOMAIN current \cup DOMAIN supplied
    /\ \A k \in DOMAIN sent :
          sent[k] = IF k \in DOMAIN supplied THEN supplied[k] ELSE current[k]

\* the run sent a PUT
SentPut(r) == r.log # << >> /\ r.log[1][1] = "PUT"

\* C12: the config in the PUT of instance_update, profile_update,
\* storage_pool_update and settings_update is the fetched config overridden
\* by the supplied keys; a key the caller does not mention keeps its value.
C12_ConfigMerge ==
    [][/\ run'.fn = "storage_pool_update" /\ SentPut(run')
             => Merged(resources.storage_pool.config, desired.config,
                       run'.log[1][3].config)
       /\ run'.fn = "settings_update" /\ SentPut(run')
             => Merged(resources.settings.config, desired.config,
                       run'.log[1][3].config)
       /\ run'.fn = "instance_present" /\ SentPut(run')
             => Merged(instances[InstanceName].config, desired.config,
                       InstanceUpdateBody(instances[InstanceName], desired.config,
                                          desired.devices, desired.profiles).config)
       /\ run'.fn = "profile_present" /\ SentPut(run')
             => Merged(cprofiles[ProfileName].config, desired.config,
                       ProfileUpdateBody(cprofiles[ProfileName], desired.config,
                                         desired.devices, desired.description).config)
      ]_vars

\* storage_pool_update merged {b: 3, c: 4} into a pool that held a = 1 and b
C12_Witness ==
    /\ run.fn = "storage_pool_update"
    /\ run.result = "True"
    /\ desired.config = [b |-> <<"str", "3">>, c |-> <<"str", "4">>]
    /\ run.log[1][3].config
          = [a |-> <<"str", "1">>, b |-> <<"str", "3">>, c |-> <<"str", "4">>]
    /\ resources.storage_pool.config = run.log[1][3].config

\* ------------------------------------------------------------------------
\* The differences instance_present reports
\* ------------------------------------------------------------------------
\* the run of fn found its resource and did not fail
Reported(r, fn) == r.fn = fn /\ r.result \in {"True", "None"}

\* C13: the config section of the changes instance_present reports for an
\* instance it fetched holds exactly the declared keys whose value, coerced to
\* a string, differs from the stored one, each with the stored value (None
\* when the key is not stored) and the coerced value; a stored key that is
\* not declared is never reported.
C13_ConfigDiffExact ==
    [][(/\ Reported(run', "instance_present")
        /\ InstanceName \in DOMAIN instances
        /\ "instance" \notin DOMAIN run'.changes)
         => LET current == instances[InstanceName].config
                diff == Get(run'.changes, "config", EmptyDict)
            IN  /\ DOMAIN diff =
                      { k \in DOMAIN desired.config :
                          k \in DOMAIN current
                             => current[k][2] # desired.config[k][2] }
                /\ \A k \in DOMAIN diff :
                      /\ diff[k].new = <<"str", desired.config[k][2]>>
                      /\ k \in DOMAIN current => diff[k].old = current[k]
                      /\ k \notin DOMAIN current => diff[k].old = None
      ]_vars

\* limits.cpu is stored as 2, limits.memory is the only key declared and the
\* only key reported
C13_Witness ==
    /\ Reported(run, "instance_present")
    /\ DOMAIN desired.config = {"limits.memory"}
    /\ InstanceName \in DOMAIN instances
    /\ "limits.cpu" \in DOMAIN instances[InstanceName].config
    /\ instances[InstanceName].config["limits.cpu"] = <<"str", "2">>
    /\ "config" \in DOMAIN run.changes
    /\ DOMAIN run.changes.config = {"limits.memory"}

\* ------------------------------------------------------------------------
\* Device updates
\* ------------------------------------------------------------------------
\* the run of fn was real and reported changes
Applied(r, fn) ==
    r.fn = fn /\ ~r.test /\ r.result = "True" /\ r.changes # EmptyDict

\* C14: an update of the devices merges the properties of a device that
\* exists and leaves a device it does not mention as it was, and a device
\* supplied with an empty property map is removed: after a real run of
\* volume_detached that reports the detachment the instance has no device of
\* that name.
C14_DeviceMergeAndRemoval ==
    [][/\ Applied(run', "instance_present") /\ SentPut(run')
             => \A d \in DOMAIN instances[InstanceName].devices :
                   instances'[InstanceName].devices[d] =
                      IF d \in DOMAIN desired.devices
                      THEN Update(instances[InstanceName].devices[d],
                                  desired.devices[d])
                      ELSE instances[InstanceName].devices[d]
       /\ Applied(run', "volume_detached")
             => /\ VolumeName \notin DOMAIN instances'[InstanceName].devices
                /\ \A d \in DOMAIN instances[InstanceName].devices \ {VolumeName} :
                      /\ d \in DOMAIN instances'[InstanceName].devices
                      /\ instances'[InstanceName].devices[d] =
                            instances[InstanceName].devices[d]
      ]_vars

\* ------------------------------------------------------------------------
\* Rotation
\* ------------------------------------------------------------------------
\* the run was a real instance_snapshots_rotated that returned result
RotatedFor(r, result_) ==
    r.fn = "instance_snapshots_rotated" /\ ~r.test /\ r.result = result_

\* the snapshots of snaps that do not match pattern
NotMatching(snaps, pattern) ==
    LET Other(s) == ~FnMatch(s.name, pattern) IN SelectSeq(snaps, Other)

\* C15: after a real run of instance_snapshots_rotated in which every delete
\* succeeds, min(count, keep) of the snapshots that matched the pattern
\* remain, none of them was created before one that was deleted, and the
\* snapshots that do not match are all still there.
C15_RotationKeepsNewest ==
    [][RotatedFor(run', "True")
         => LET before == Matching(snapshots, desired.pattern)
                after == Matching(snapshots', desired.pattern)
            IN  /\ Len(after) = IF Len(before) < desired.keep
                                THEN Len(before) ELSE desired.keep
                /\ Range(after) \subseteq Range(before)
                /\ \A kept \in Range(after), gone \in Range(before) \ Range(after) :
                      gone.created_at <= kept.created_at
                /\ NotMatching(snapshots', desired.pattern)
                      = NotMatching(snapshots, desired.pattern)
      ]_vars

\* d1, d2, d3 created in that order, keep = 2: d1 alone was deleted
C15_Witness ==
    /\ RotatedFor(run, "True")
    /\ desired = [pattern |-> AnyD, keep |-> 2]
    /\ run.changes = Change("deleted", <<D1>>, None)
    /\ snapshots = << [name |-> D2, created_at |-> 2, expires_at |-> ""],
                      [name |-> D3, created_at |-> 3, expires_at |-> ""] >>

\* the run was a real instance_snapshots_rotated that fetched the snapshots
RotationRan(r) ==
    /\ r.fn = "instance_snapshots_rotated"
    /\ ~r.test
    /\ r.result = "True" \/ r.log # << >>

\* C16: a real run of instance_snapshots_rotated sends one DELETE for every
\* snapshot of the deletion set, whether or not an earlier one failed; its
\* changes list the snapshots whose delete succeeded and nothing else, and
\* its result is True exactly when no delete failed.
C16_RotationGoesOn ==
    [][RotationRan(run')
         => LET to_delete == ToDelete(snapshots, desired.pattern, desired.keep)
                Gone(n) == ~SnapshotExists(snapshots', n)
                deleted == SelectSeq(to_delete, Gone)
            IN  /\ run'.log = [i \in DOMAIN to_delete |->
                                 <<"DELETE", "snapshots", to_delete[i]>>]
                /\ run'.changes = IF deleted = << >> THEN EmptyDict
                                  ELSE Change("deleted", deleted, None)
                /\ run'.result = "True" <=> deleted = to_delete
                /\ run'.result \in {"True", "False"}
      ]_vars

\* the first delete failed, the second was sent and succeeded
C16_Witness ==
    /\ RotationRan(run)
    /\ run.result = "False"
    /\ Len(run.log) = 2
    /\ run.changes = Change("deleted", <<run.log[2][3]>>, None)
    /\ SnapshotExists(snapshots, run.log[1][3])
    /\ ~SnapshotExists(snapshots, run.log[2][3])

\* a precedes b in the order of rotation: it was created earlier, or at the
\* same time and listed earlier
Precedes(snaps, a, b) ==
    LET i == CHOOSE x \in DOMAIN snaps : snaps[x].name = a
        j == CHOOSE x \in DOMAIN snaps : snaps[x].name = b
    IN  \/ snaps[i].created_at < snaps[j].created_at
        \/ snaps[i].created_at = snaps[j].created_at /\ i < j

\* C17: instance_snapshots_rotated sends its DELETE requests oldest first,
\* snapshots created at the same time in the order of the list it fetched,
\* and every snapshot it deletes precedes, in that order, every matching
\* snapshot it keeps.
C17_OldestFirstStable ==
    [][RotationRan(run')
         => LET names == [i \in DOMAIN run'.log |-> run'.log[i][3]]
                kept == { s.name : s \in Range(Matching(snapshots, desired.pattern)) }
                           \ Range(names)
            IN  /\ \A i, j \in DOMAIN names :
                      i < j => Precedes(snapshots, names[i], names[j])
                /\ \A i \in DOMAIN names, k \in kept :
                      Precedes(snapshots, names[i], k)
      ]_vars

\* d2 and d1 were created at the same time and d2 is listed first: the DELETE
\* for d2 was sent before the one for d1 (both were refused)
C17_Witness ==
    /\ RotationRan(run)
    /\ Len(run.log) = 2
    /\ run.log[1][3] = D2
    /\ run.log[2][3] = D1
    /\ Len(snapshots) >= 2
    /\ snapshots[1].name = D2
    /\ \E i \in DOMAIN snapshots :
          snapshots[i].name = D1 /\ snapshots[i].created_at = snapshots[1].created_at

\* C18: when no more than keep snapshots match the pattern, a run of
\* instance_snapshots_rotated that fetched the snapshots, dry or real, sends
\* no DELETE, leaves the snapshots as they are and returns result True with
\* empty changes.
C18_NoRotationNeeded ==
    family = "rotation"
       /\ Len(Matching(snapshots, desired.pattern)) <= desired.keep
       => \A test \in BOOLEAN, fail \in SUBSET Range(SnapshotNamesOf(snapshots)) :
             LET r == InstanceSnapshotsRotated(instances, snapshots, InstanceName,
                                               desired.pattern, desired.keep,
                                               test, TRUE, TRUE, fail)
             IN  NothingToDo(r) /\ r.cp = snapshots

\* a dry run over two matching snapshots with keep = 2
C18_Witness ==
    /\ run.fn = "instance_snapshots_rotated"
    /\ run.test
    /\ run.result = "True"
    /\ desired.keep = 2
    /\ Len(Matching(snapshots, desired.pattern)) = 2

\* C19: with more matches than keep, a dry run of instance_snapshots_rotated
\* that fetched the snapshots returns result None, sends no DELETE, leaves the
\* snapshots as they are, and reports as deleted exactly the count - keep
\* oldest matching names; a real run whose deletes all succeed reports the
\* same names.
C19_DryRunDeletionSet ==
    family = "rotation"
       /\ Len(Matching(snapshots, desired.pattern)) > desired.keep
       => \A fail \in SUBSET Range(SnapshotNamesOf(snapshots)) :
             LET dry == InstanceSnapshotsRotated(instances, snapshots, InstanceName,
                                                 desired.pattern, desired.keep,
                                                 TRUE, TRUE, TRUE, fail)
                 real == InstanceSnapshotsRotated(instances, snapshots, InstanceName,
                                                  desired.pattern, desired.keep,
                                                  FALSE, TRUE, TRUE, {})
                 matches == { s.name : s \in Range(Matching(snapshots, desired.pattern)) }
             IN  /\ dry.result = "None"
                 /\ dry.log = << >>
                 /\ dry.cp = snapshots
                 /\ DOMAIN dry.changes = {"deleted"}
                 /\ LET named == Range(dry.changes["deleted"].old)
                    IN  /\ named \subseteq matches
                        /\ Cardinality(named) = Cardinality(matches) - desired.keep
                        /\ Len(dry.changes["deleted"].old) = Cardinality(named)
                        /\ \A a \in named, b \in matches \ named :
                              Precedes(snapshots, a, b)
                 /\ real.result = "True"
                 /\ real.changes = dry.changes

\* a dry run over three matching snapshots with keep = 1 that names two of them
C19_Witness ==
    /\ run.fn = "instance_snapshots_rotated"
    /\ run.test
    /\ run.result = "None"
    /\ desired.keep = 1
    /\ Len(Matching(snapshots, desired.pattern)) = 3
    /\ Len(run.changes["deleted"].old) = 2

\* C20: every run of a state function follows the tri-state convention.
\* Result None comes only with the dry-run flag set and changes to report. A
\* real run returns True or False; True with changes means the control plane
\* was changed, and True with empty changes means the resource was already
\* converged: nothing was sent and nothing changed. A real run that sent a
\* request that failed therefore cannot return True with empty changes.
C20_TriState ==
    [][family \notin {"accessor", "remote", "race", "network", "config"}
         => /\ run'.result = "None" => (run'.test /\ run'.changes # EmptyDict)
            /\ ~run'.test
                  => /\ run'.result \in {"True", "False"}
                     /\ (run'.result = "True" /\ run'.changes # EmptyDict)
                           => ControlPlane' # ControlPlane
                     /\ (run'.result = "True" /\ run'.changes = EmptyDict)
                           => (ControlPlane' = ControlPlane /\ run'.log = << >>)
      ]_vars

\* the alias requests of the run r that the control plane refused, given the
\* aliases before and after: a DELETE whose alias is still there, a POST whose
\* alias was not added
RefusedAliasRequests(r, before, after) ==
    { i \in DOMAIN r.log :
        /\ r.log[i][2] = "aliases"
        /\ \/ r.log[i][1] = "DELETE" /\ r.log[i][3] \in DOMAIN after
           \/ r.log[i][1] = "POST"
              /\ ~(r.log[i][3] \notin DOMAIN before /\ r.log[i][3] \in DOMAIN after) }

\* C21: a real run of image_present that changed the control plane and had an
\* alias removal or an alias creation refused returns result False.
C21_PartialApplicationFails ==
    [][(/\ run'.fn = "image_present"
        /\ ~run'.test
        /\ <<images', aliases'>> # <<images, aliases>>
        /\ RefusedAliasRequests(run', aliases, aliases') # {})
          => run'.result = "False"
      ]_vars

\* C22: when the fetch of the current resource fails with a transport error,
\* instance_absent and profile_absent return result False, and a real run of
\* instance_present sends no create request.
C22_FetchFailureAborts ==
    /\ family = "lifecycle"
          => \A force, test \in BOOLEAN :
                InstanceAbsent(instances, InstanceName, force, test,
                               FALSE, TRUE, TRUE, TRUE).result = "False"
    /\ family = "profile"
          => \A test \in BOOLEAN :
                ProfileAbsent(cprofiles, ProfileName, test, FALSE, TRUE).result = "False"
    /\ family = "instance"
          => LET r == InstancePresent(instances, InstanceName, desired,
                                      FALSE, FALSE, TRUE, TRUE)
             IN  \A i \in DOMAIN r.log : r.log[i][1] # "POST"

\* the arguments image_create_from_remote refuses: both alias and
\* fingerprint, neither, an invalid protocol, an invalid image_type
InvalidRemoteArgs ==
    { a \in RemoteArgs :
        \/ a.alias # "" /\ a.fingerprint # ""
        \/ a.alias = "" /\ a.fingerprint = ""
        \/ a.protocol = "ftp"
        \/ a.image_type = "disk" }

\* C23: image_create_from_remote given invalid arguments, and settings_update
\* and settings_replace given a config that is no dictionary, return a failure
\* and send no request, neither a read nor a write, whatever the control plane
\* would have answered.
C23_ValidationBeforeNetwork ==
    /\ family = "remote"
          => \A args \in InvalidRemoteArgs, fault \in ImageFaults :
                LET r == ImageCreateFromRemote(images, aliases, args, FALSE,
                                               <<ImageName>>, fault)
                IN  ~r.success /\ r.log = << >> /\ r.images = images
                    /\ r.aliases = aliases
    /\ family = "accessor" /\ desired.config = NotADict
          => \A got \in GetAnswers, ok \in BOOLEAN :
                      LET u == SettingsUpdate(resources.settings, desired.config, got, ok)
                          v == SettingsReplace(resources.settings, desired.config, got, ok)
                      IN  /\ ~u.success /\ u.reads = 0 /\ u.log = << >>
                          /\ ~v.success /\ v.reads = 0 /\ v.log = << >>

\* settings_update was called with a string in place of a dictionary and
\* failed without a request
C23_Witness ==
    /\ run.fn = "settings_update"
    /\ run.result = "False"
    /\ run.log = << >>
    /\ desired.config = NotADict

\* what _request returns for a failure
StructuredError(r, code) ==
    DOMAIN r = {"error", "error_code"} /\ r.error_code = code

\* C24: whatever the transport answered to the request of the call, the
\* result of _request is {error, error_code} with error_code the HTTP status
\* when the status is outside 2xx, and with error_code null when there was no
\* response; a 5xx status is reported like a 4xx one.
C24_RequestErrors ==
    \A o \in Outcomes(ImmediateBodies) :
       (call # "none" /\ immediate = Request(o))
          => /\ (o.kind = "http" /\ o.status \notin 200..299)
                   => StructuredError(immediate, o.status)
             /\ o.kind = "conn" => StructuredError(immediate, NoneCode)

\* C25: an accessor call that has ended returned a result with a success
\* field; it did not raise, whatever envelope the control plane answered with.
C25_AccessorsNeverRaise ==
    pc = "done" => (DOMAIN outcome = {"success"} \/ DOMAIN outcome = {"success", "error"})

\* C26: storage_pool_config compares a desired value with the stored one
\* after coercing it to a string: a desired key whose string form is the
\* stored value is not reported as a change, in a dry run or a real one.
C26_CoercedComparison ==
    (family = "accessor" /\ IsDict(desired.config))
       => \A test \in BOOLEAN :
             LET held == resources.storage_pool.config
                 r == StoragePoolConfig(resources.storage_pool, desired.config,
                                        desired.description, test, "full", "bare", TRUE)
             IN  \A k \in DOMAIN desired.config \cap DOMAIN held :
                    held[k] = Str(desired.config[k])
                       => ("config" \notin DOMAIN r.changes
                           \/ k \notin DOMAIN r.changes.config)

\* b holds the elements of a, each as often, in some order
IsPermutation(a, b) ==
    /\ Len(a) = Len(b)
    /\ \A x \in Range(a) \cup Range(b) :
          Cardinality({ i \in DOMAIN a : a[i] = x })
             = Cardinality({ i \in DOMAIN b : b[i] = x })

\* C27: when the declared profile list is a permutation of the profile list
\* of the instance instance_present fetched, the changes it reports have no
\* profiles section.
C27_ProfilesAsSet ==
    [][(/\ Reported(run', "instance_present")
        /\ InstanceName \in DOMAIN instances
        /\ "instance" \notin DOMAIN run'.changes
        /\ desired.profiles.some
        /\ IsPermutation(desired.profiles.val, instances[InstanceName].profiles))
          => "profiles" \notin DOMAIN run'.changes
      ]_vars

\* a dry run that reported a config change for an instance with the profiles
\* default, web declared as web, default
C27_Witness ==
    /\ Reported(run, "instance_present")
    /\ run.test
    /\ DOMAIN run.changes = {"config"}
    /\ desired.profiles.some
    /\ desired.profiles.val = <<"web", "default">>
    /\ InstanceName \in DOMAIN instances
    /\ instances[InstanceName].profiles = <<"default", "web">>

\* C28: after a real run of instance_present that updated the instance it
\* fetched, every section (config, devices, profiles) for which it reported no
\* difference has on the control plane the value it had before.
C28_OnlyChangedSections ==
    [][(/\ Applied(run', "instance_present")
        /\ InstanceName \in DOMAIN instances
        /\ "instance" \notin DOMAIN run'.changes)
          => /\ "config" \notin DOMAIN run'.changes
                   => instances'[InstanceName].config = instances[InstanceName].config
             /\ "devices" \notin DOMAIN run'.changes
                   => instances'[InstanceName].devices = instances[InstanceName].devices
             /\ "profiles" \notin DOMAIN run'.changes
                   => instances'[InstanceName].profiles = instances[InstanceName].profiles
      ]_vars

\* C29: instance_running and instance_stopped send a state-change request
\* exactly when the instance was fetched, its status is not the desired one
\* and the run is real; they send at most one request, and the changes they
\* report name the fetched status as old and the desired status as new.
C29_StateChangeOnlyWhenNeeded ==
    family = "lifecycle"
       => \A target \in {"Running", "Stopped"}, test, up, ok \in BOOLEAN :
             LET r == InstanceInState(instances, InstanceName, target, test, up, ok)
                 fetched == up /\ InstanceName \in DOMAIN instances
             IN  /\ r.log # << >>
                       <=> (/\ fetched
                            /\ instances[InstanceName].status # target
                            /\ ~test)
                 /\ Len(r.log) <= 1
                 /\ r.changes # EmptyDict
                       => r.changes = Change("state", instances[InstanceName].status,
                                             target)
                 /\ (r.log # << >> /\ r.result = "True")
                       => r.changes # EmptyDict

\* a real run of instance_running started a stopped instance with one request
C29_Witness ==
    /\ run.fn = "instance_running"
    /\ ~run.test
    /\ run.result = "True"
    /\ Len(run.log) = 1
    /\ run.changes = Change("state", "Stopped", "Running")
    /\ instances[InstanceName].status = "Running"

\* both calls of instance_update ended with success, after both had fetched
\* the instance before either sent its PUT
BothFetchedFirst ==
    /\ family = "race"
    /\ \A c \in Callers : inflight.calls[c].pc = "done" /\ inflight.calls[c].success
    /\ Len(inflight.order) = 4
    /\ inflight.order[1][1] = "GET"
    /\ inflight.order[2][1] = "GET"

\* C30: when two calls of instance_update on the same instance both fetch
\* before either PUTs, each with a different config key, and both report
\* success, the stored config is the fetched config with the key of the
\* second PUT only: the key the first PUT wrote has the value it had before
\* the calls, or is missing when it was not stored before.
C30_LastWriteWins ==
    LET first == inflight.order[3][2]
        second == inflight.order[4][2]
        before == inflight.calls[first].current.config
        stored == instances[InstanceName].config
    IN  (/\ BothFetchedFirst
         /\ DOMAIN inflight.calls[first].config # DOMAIN inflight.calls[second].config)
           => /\ stored = Update(before, inflight.calls[second].config)
              /\ \A k \in DOMAIN inflight.calls[first].config :
                    IF k \in DOMAIN before THEN stored[k] = before[k]
                    ELSE k \notin DOMAIN stored

\* A wrote limits.cpu, then B wrote limits.memory from the copy it had fetched
\* before: both succeeded and limits.cpu is not stored
C30_Witness ==
    /\ BothFetchedFirst
    /\ inflight.order[3] = <<"PUT", "A">>
    /\ inflight.order[4] = <<"PUT", "B">>
    /\ DOMAIN inflight.calls["A"].config = {"limits.cpu"}
    /\ DOMAIN inflight.calls["B"].config = {"limits.memory"}
    /\ DOMAIN instances[InstanceName].config = {"limits.memory"}

\* C31: settings_managed makes the stored server configuration equal to the
\* desired one for every desired config, the empty one included: after a real
\* run in which the control plane answers every request with success, the
\* stored config is exactly the desired keys with their values coerced to
\* strings, and no other key is left.
C31_ManagedMatchesExactly ==
    [][\A test \in BOOLEAN, got, got2 \in GetAnswers, ok \in BOOLEAN :
         ( /\ RunSettingsManaged(test, got, got2, ok)
           /\ ~test /\ got = "full" /\ got2 = "full" /\ ok )
         => resources'.settings.config
               = [k \in DOMAIN desired.config |-> Str(desired.config[k])]]_vars

\* the same for the runs that return result True only: it holds, the empty
\* desired config over a non-empty stored one never giving result True
C31_MatchesWhenTrue ==
    (run.fn = "settings_managed" /\ ~run.test /\ run.result = "True")
       => resources.settings.config
             = [k \in DOMAIN desired.config |-> Str(desired.config[k])]

\* a real run with the empty desired config, every request answered with
\* success, over a stored config that is not empty
C31_Witness ==
    /\ run.fn = "settings_managed" /\ ~run.test
    /\ desired.config = EmptyDict
    /\ resources.settings.config # EmptyDict
    /\ run.result = "False" /\ run.log = << >>

\* what C32 demands of a step that is a real run of image_present under the
\* fault, finding an image and returning result True
AliasesReconciled(fault) ==
    LET fp == ImageMatch(images, aliases, ImageName, desired,
                         "alias" \notin fault.down)
    IN  ( /\ RunImagePresent(FALSE, fault)
          /\ "list" \notin fault.down
          /\ fp # ""
          /\ run'.result = "True" )
        => /\ AliasesOf(aliases', fp) = {ImageName} \cup Range(desired.aliases)
           /\ \A a \in DOMAIN aliases :
                 aliases[a] # fp
                    => a \in DOMAIN aliases' /\ aliases'[a] = aliases[a]

\* C32: after a real run of image_present that found the image and returned
\* result True, the aliases that target the image's fingerprint are exactly
\* the state name and the desired aliases, and every alias that targeted
\* another image is still there with its target.
C32_AliasesBySetDifference ==
    [][\A fault \in ImageFaults : AliasesReconciled(fault)]_vars

\* the same for the runs in which the control plane refuses no alias request
C32_WhenNoAliasRequestRefused ==
    [][\A fault \in ImageFaults : fault.fail = {} => AliasesReconciled(fault)]_vars

\* a real run that returned result True after a refused alias removal
C32_Witness ==
    /\ run.fn = "image_present" /\ ~run.test /\ run.result = "True"
    /\ \E i \in DOMAIN run.log :
          /\ run.log[i][1] = "DELETE" /\ run.log[i][2] = "aliases"
          /\ run.log[i][3] \in DOMAIN aliases

\* the reported changes of the run r are what the network holds
NetworkHolds(r, network) ==
    /\ "config" \in DOMAIN r.changes
          => \A k \in DOMAIN r.changes.config :
                k \in DOMAIN network.config
                /\ network.config[k] = r.changes.config[k].new
    /\ "description" \in DOMAIN r.changes
          => network.description = r.changes.description.new

\* C33: after a real run of network_present on an existing network that
\* returned result True with changes, every reported change is what the
\* control plane holds, and a second run with the same arguments reports no
\* change.
C33_NetworkIdempotent ==
    Applied(run, "network_present")
       => /\ NetworkHolds(run, resources.network)
          /\ NetworkPresent(resources.network, desired.config, desired.description,
                            FALSE, "full", "bare", TRUE).changes = EmptyDict

\* a real run that reported a description change
C33_Witness ==
    /\ Applied(run, "network_present")
    /\ "description" \in DOMAIN run.changes

\* C34: after a real run of instance_snapshots_managed in which every
\* request succeeds, every configured entry with a pattern and a keep count
\* has at most keep snapshots of the instance matching its pattern, the
\* snapshot the run created counted.
C34_RetentionBound ==
    (family = "managed" /\ Now(snapshots) <= MaxClock)
       => LET r == InstanceSnapshotsManaged(instances, snapshots, InstanceName,
                                            desired.config, FALSE, TRUE, TRUE,
                                            {}, "ok")
          IN  r.result = "True"
                 => \A i \in DOMAIN desired.config :
                       LET e == desired.config[i] IN
                       (e.pattern # << >> /\ e.keep # NoneCode)
                          => Len(Matching(r.cp, e.pattern)) <= e.keep

\* the bound over the snapshots the run listed before it created any
C34_BoundOnListed ==
    (family = "managed" /\ Now(snapshots) <= MaxClock)
       => LET r == InstanceSnapshotsManaged(instances, snapshots, InstanceName,
                                            desired.config, FALSE, TRUE, TRUE,
                                            {}, "ok")
              Listed(s) == SnapshotExists(snapshots, s.name)
          IN  r.result = "True"
                 => \A i \in DOMAIN desired.config :
                       LET e == desired.config[i] IN
                       (e.pattern # << >> /\ e.keep # NoneCode)
                          => Len(Matching(SelectSeq(r.cp, Listed), e.pattern)) <= e.keep

\* a real run that created a snapshot and rotated, every request succeeding
C34_Witness ==
    /\ run.fn = "instance_snapshots_managed" /\ ~run.test /\ run.result = "True"
    /\ "created" \in DOMAIN run.changes
    /\ \E i \in DOMAIN desired.config :
          /\ desired.config[i].pattern # << >> /\ desired.config[i].keep # NoneCode
          /\ Len(Matching(snapshots, desired.config[i].pattern)) > desired.config[i].keep

\* the run r sent a DELETE for the snapshot n
DeleteSent(r, n) == \E i \in DOMAIN r.log : r.log[i] = <<"DELETE", "snapshots", n>>

\* the deletion lists of the rotating entries of which the real run r, made
\* with the refusals fail, had a delete refused
FailedRotations(r, fail) ==
    { ToDelete(snapshots, desired.config[i].pattern, desired.config[i].keep) :
        i \in { j \in DOMAIN desired.config :
                  /\ desired.config[j].pattern # << >>
                  /\ desired.config[j].keep # NoneCode
                  /\ \E n \in Range(ToDelete(snapshots, desired.config[j].pattern,
                                             desired.config[j].keep)) :
                        n \in fail /\ DeleteSent(r, n) } }

\* C35: when a rotation delete fails inside a real run of
\* instance_snapshots_managed, the other deletes of the rotation are still
\* sent and the run returns result False.
C35_FailedRotationFails ==
    (family = "managed" /\ Now(snapshots) <= MaxClock)
       => \A fail \in SUBSET ManagedNames(desired.config, snapshots) :
             LET r == InstanceSnapshotsManaged(instances, snapshots, InstanceName,
                                               desired.config, FALSE, TRUE, TRUE,
                                               fail, "ok")
             IN  \A to_delete \in FailedRotations(r, fail) :
                    /\ \A n \in Range(to_delete) : DeleteSent(r, n)
                    /\ r.result = "False"

\* the first half alone: the other deletes are still sent
C35_RemainingAttempted ==
    (family = "managed" /\ Now(snapshots) <= MaxClock)
       => \A fail \in SUBSET ManagedNames(desired.config, snapshots) :
             LET r == InstanceSnapshotsManaged(instances, snapshots, InstanceName,
                                               desired.config, FALSE, TRUE, TRUE,
                                               fail, "ok")
             IN  \A to_delete \in FailedRotations(r, fail) :
                    \A n \in Range(to_delete) : DeleteSent(r, n)

\* a real run that had the first of two rotation deletes refused and
\* returned result True
C35_Witness ==
    /\ run.fn = "instance_snapshots_managed" /\ ~run.test /\ run.result = "True"
    /\ Len(run.log) = 2
    /\ run.log[1][1] = "DELETE" /\ run.log[2][1] = "DELETE"
    /\ SnapshotExists(snapshots, run.log[1][3])
    /\ ~SnapshotExists(snapshots, run.log[2][3])

\* the requests of the log that are not reads
MutatingRequests == { i \in DOMAIN reqlog : reqlog[i].method # "GET" }

\* C36: nothing is retried. An accessor call sends its POST, PUT or DELETE at
\* most once whatever the outcome, and a poll of _wait_for_operation that
\* ends in an error is the last one: the wait returns a failure and does not
\* poll the operation again.
C36_NoRetry ==
    /\ Cardinality(MutatingRequests) <= 1
    /\ \A i \in DOMAIN polled :
          IsError(polled[i])
             => /\ i = Len(polled)
                /\ Returned
                /\ result = [success |-> FALSE,
                             error |-> Get(polled[i], "error", "Unknown error"),
                             operation |-> polled[i]]

\* the call is over after a third poll that failed where two had found the
\* operation running
C36_Witness ==
    /\ pc = "done"
    /\ Len(polled) = 3
    /\ IsError(polled[3])
    /\ Cardinality(MutatingRequests) = 1
    /\ Len(reqlog) = 4

\* a readiness loop is running or over
InReadyLoop == call \in ReadyCalls

\* a loop returns success only after a probe that succeeded (for cloud-init
\* one whose return code is 0), a sleep separates two probes, a probe is made
\* only within the timeout, and the timeout failure comes only once the
\* elapsed time has reached the timeout
C37_Safe ==
    InReadyLoop
       => /\ (pc = "done" /\ outcome.success)
                => /\ polled # << >>
                   /\ LET p == polled[Len(polled)] IN
                      /\ "error_code" \in DOMAIN p /\ p.error_code = 0
                      /\ call = "instance_wait_cloudinit"
                            => /\ p.metadata # None
                               /\ "return" \in DOMAIN p.metadata.metadata
                               /\ p.metadata.metadata.return = 0
          /\ \A i \in DOMAIN events :
                events[i] = IF i % 2 = 1 THEN "probe" ELSE "sleep"
          /\ (pc = "done" /\ ~outcome.success) => clock - started >= timeout

C37_Steps ==
    InReadyLoop
       => /\ pc = "ready_sleep" => clock' = clock + interval /\ pc' = "ready_loop"
          /\ Len(polled') > Len(polled) => clock - started < timeout
          /\ (pc = "ready_loop" /\ clock - started >= timeout)
                => (pc' = "done" /\ ~outcome'.success)

\* C37: instance_wait_ready and instance_wait_cloudinit terminate for every
\* sequence of probe outcomes when each sleep advances the clock. They
\* return success only after a probe succeeded (for cloud-init a probe whose
\* return code is 0), sleep the interval between two probes, and return the
\* timeout failure once the elapsed time has reached the timeout.
C37_ReadinessLoops ==
    /\ [](C37_Safe)
    /\ [][C37_Steps]_vars
    /\ <>(pc = "done")

\* instance_wait_cloudinit returned success at its second probe, after a
\* first one that found the command returning 1
C37_Witness ==
    /\ call = "instance_wait_cloudinit"
    /\ pc = "done" /\ outcome.success
    /\ events = <<"probe", "sleep", "probe">>
    /\ polled[1] = ExecResult(1)

\* the instance is on the control plane and running
IsRunning == InstanceName \in DOMAIN instances /\ instances[InstanceName].status = "Running"

StopThenDelete ==
    << <<"PUT", "state", "Stopped">>, <<"DELETE", "instances", InstanceName>> >>

OnlyDelete == << <<"DELETE", "instances", InstanceName>> >>

C39_SameSuccessPredicate ==
    /\ (family = "accessor" /\ IsDict(desired.config))
          => \A got \in GetAnswers :
                (StoragePoolUpdate(resources.storage_pool, desired.config,
                                   desired.description, got, TRUE).log # << >>)
                   = StoragePoolGet(resources.storage_pool, got).success
    /\ family = "network"
          => \A got \in GetAnswers :
                (NetworkUpdate(resources.network, desired.config, got, TRUE).log # << >>)
                   = NetworkGet(resources.network, got).success

\* what the update accessors do agree on with the get accessors: an answer
\* that is a transport error stops both
C39_ErrorStopsBoth ==
    /\ (family = "accessor" /\ IsDict(desired.config))
          => /\ StoragePoolUpdate(resources.storage_pool, desired.config,
                                  desired.description, "error", TRUE).log = << >>
             /\ ~StoragePoolGet(resources.storage_pool, "error").success
    /\ family = "network"
          => /\ NetworkUpdate(resources.network, desired.config, "error", TRUE).log = << >>
             /\ ~NetworkGet(resources.network, "error").success

\* storage_pool_update gave up without a PUT
C39_Witness ==
    /\ run.fn = "storage_pool_update"
    /\ run.result = "False"
    /\ run.log = << >>

\* C40: loading the connection configuration leaves the module-level default
\* as it was: after any sequence of IncusClient constructions with any
\* pillar configurations, DEFAULT_CFG holds the original defaults and a
\* client constructed with an empty pillar configuration gets exactly them
\* (type unix, the default socket path, url, cert and key unset, verify true).
C40_DefaultsUnshared ==
    family = "config"
       => /\ Resolved(resources, "DEFAULT_CFG") = Resolved(ModuleHeap, "DEFAULT_CFG")
          /\ Resolved(LoadConfig(resources, EmptyDict), "config")
                = Resolved(ModuleHeap, "DEFAULT_CFG")

\* what does hold: a construction never rebinds a key of DEFAULT_CFG itself
C40_TopLevelKept ==
    family = "config" => resources["DEFAULT_CFG"] = ModuleHeap["DEFAULT_CFG"]

\* a client was constructed with an empty pillar configuration after one
\* constructed with a pillar that sets the connection type
C40_Witness ==
    /\ run.fn = "_load_config"
    /\ run.changes = EmptyDict
    /\ resources["connection"].type = Scalar("https")

====
